---------------------------- MODULE Spec2Model ----------------------------
(***************************************************************************)
(* PyTCP: the TCP session finite state machine (tcp_session.py) driven by  *)
(* the stack timer (stack_timer.py), the packet receive thread and one     *)
(* application thread using the blocking socket-style calls.               *)
(*                                                                         *)
(* Python integers are unbounded, so sequence numbers are plain integers:  *)
(* the code applies no modulo.  None is the integer None (-1), which no    *)
(* sequence number, counter or length can take.                            *)
(***************************************************************************)
EXTENDS Integers, Sequences, FiniteSets, TLC

VARIABLES
    sess,        \* the TcpSession object: its fields (incl. both semaphores)
    timers,      \* StackTimer.timers: name -> remaining ticks (a dict)
    tx_log,      \* every segment handed to packet_handler.phtx_tcp, in order
    fsm_pc,      \* "idle", or the place where a handler holding lock_fsm stands
    app_pc,      \* position of the application thread inside its current call
    app_arg,     \* argument of the call in progress (receive's byte_count)
    app_ret,     \* what the last finished call returned
    events,      \* timer iterations + packets delivered + calls so far (up to MaxEvents)
    heard,       \* TRUE once a packet of the peer has been delivered to tcp_fsm
    tcp_sessions, \* stack.tcp_sessions: tcp_session_id -> reference of a session
    heap,        \* the sessions stack.tcp_sessions refers to, by reference
    lock_fsm,    \* TcpSession.lock_fsm: "" when free, or the thread that holds it
    thread_pc,   \* where each thread that calls tcp_fsm is: "out", "acquire", "in"
    thread_ev,   \* the arguments of each thread's call of tcp_fsm
    seen,        \* the session as each thread found it when it got lock_fsm
    arp_cache,   \* ArpCache.arp_cache: ip -> entry (MAC, age in seconds, hit_count)
    arp_tx,      \* the ARP requests ArpCache has enqueued with its tx_ring, per target ip
    arp_tx_ring, \* whether ArpCache.tx_ring is bound (TRUE) or None (FALSE)
    maintain_pc, \* ArpCache.__maintain: "wake", "scan", "sleep", or "dead" after an exception
    scan_todo,   \* the addresses of list(self.arp_cache) the scan has still to visit
    find_ret,    \* what the last find_entry() was asked and what it returned
    ph_pc,       \* where PacketHandler.__init__ stands in the claim of the stack address
    ph_i,        \* the loop variable of "for i in range(3)"
    ph_conflict, \* PacketHandler.arp_probe_conflict_detected
    ph_claimed,  \* PacketHandler.ip_address_claimed
    ph_tx,       \* the ARP packets handed to phtx_arp, each with the second it was sent in
    ph_clock,    \* the seconds the constructor has slept
    tasks,       \* StackTimer.tasks: the StackTimerTask objects, in order of registration
    task_log,    \* every register_method() so far and the iterations its method ran in
    timer_log,   \* the latest register_timer() of each name: its timeout and iteration
    ticks,       \* the iterations __thread_timer has made
    stop_now,    \* what the tasks' stop_condition() returns
    ack_owed,    \* the timer iterations since remote_seq_rcvd went ahead of remote_seq_ackd
    tw_elapsed,  \* the timer iterations since the time_wait timer was armed
    tick_pc,     \* the statement of __thread_timer the timer thread stands at
    tick_it,     \* the iterator, the loaded value and the comprehension's result so far
    reg_pc,      \* where another thread stands in register_timer / register_method
    reg_call     \* that call's arguments, and whether the object it loaded was replaced

\* the rest of the stack, which no call on a single session touches
table_vars == <<tcp_sessions, heap>>

\* the threads that call tcp_fsm, where lock_fsm is modelled as a lock
lock_vars == <<lock_fsm, thread_pc, thread_ev, seen>>

\* the ARP cache and its maintenance thread
arp_vars == <<arp_cache, arp_tx, arp_tx_ring, maintain_pc, scan_todo, find_ret>>

\* the link layer
\* the packet handler's claim of the stack address
ph_vars == <<ph_pc, ph_i, ph_conflict, ph_claimed, ph_tx, ph_clock>>

link_vars == <<arp_vars, ph_vars>>

\* the stack timer's tasks
task_vars == <<tasks, task_log, timer_log, ticks, stop_now>>

\* the age of the acknowledgement the session owes its peer, and of TIME_WAIT
ack_vars == <<ack_owed, tw_elapsed>>

\* the timer thread and a registering thread, statement by statement
race_vars == <<tick_pc, tick_it, reg_pc, reg_call>>

stack_vars == <<table_vars, lock_vars, link_vars, task_vars, ack_vars, race_vars>>

\* the single session and its application thread
session_vars == <<sess, timers, tx_log, fsm_pc, app_pc, app_arg, app_ret, heard>>

vars == <<sess, timers, tx_log, fsm_pc, app_pc, app_arg, app_ret, events, heard,
          tcp_sessions, heap, lock_fsm, thread_pc, thread_ev, seen,
          arp_cache, arp_tx, arp_tx_ring, maintain_pc, scan_todo, find_ret,
          ph_pc, ph_i, ph_conflict, ph_claimed, ph_tx, ph_clock,
          tasks, task_log, timer_log, ticks, stop_now, ack_owed, tw_elapsed,
          tick_pc, tick_it, reg_pc, reg_call>>

---------------------------------------------------------------------------
(* Program constants                                                       *)

DELAYED_ACK_DELAY == 200
TIME_WAIT_DELAY == 15000
PACKET_RESEND_DELAY == 1000
PACKET_RESEND_COUNT == 4
USE_REMOTE_WIN == TRUE

\* stack.mtu: the interface MTU (the stack module is not part of the sources)
mtu == 1500

None == -1

---------------------------------------------------------------------------
(* Bounds of the model                                                     *)

\* timer iterations + packets delivered + application calls in one run (the
\* timer iterations of a run in which no packet is delivered are not limited)
MaxEvents == 7

PeerSeqValues == 0..2                \* seq of a received segment
AckOffsets == 1..3                   \* ack of a received ACK or FIN + ACK: ISS + k

\* local_seq_init = random.randint(0, 0xFFFFFFFF), sampled.  The value 0 is
\* told apart from the others only where a seq is handed to __send_packet,
\* that is by the SYN and SYN + ACK re-sends, which need 1000 timer
\* iterations: it is sampled in the handshake with a silent peer.
ISSValues == {5}
ISSValuesHandshake == {0, 5}
Payloads == {<< >>, <<7, 8>>}        \* raw_data of a received segment
SendData == {<<5>>}                  \* raw_data passed to send()
ByteCounts == {None, 0, 1}           \* byte_count passed to receive()
WinValues == {2}                     \* window advertised by the peer
MssValues == {1}                     \* MSS advertised by the peer

---------------------------------------------------------------------------
(* Python helpers                                                          *)

Min(a, b) == IF a <= b THEN a ELSE b
Max(a, b) == IF a >= b THEN a ELSE b
b2i(b) == IF b THEN 1 ELSE 0

\* index normalisation of a slice bound on a list of length n
PyIdx(i, n) == IF i < 0 THEN Max(i + n, 0) ELSE Min(i, n)

\* lst[a:b]
PySlice(lst, a, b) ==
    LET lo == PyIdx(a, Len(lst))
        hi == PyIdx(b, Len(lst))
    IN  IF lo < hi THEN SubSeq(lst, lo + 1, hi) ELSE << >>

\* del lst[:k]
PyDelPrefix(lst, k) ==
    LET hi == PyIdx(k, Len(lst))
    IN  SubSeq(lst, hi + 1, Len(lst))

---------------------------------------------------------------------------
(* StackTimer: the named timers                                            *)

\* register_timer(name, timeout): self.timers[name] = timeout
register_timer(t, name, timeout) ==
    [n \in (DOMAIN t) \cup {name} |-> IF n = name THEN timeout ELSE t[n]]

\* timer_expired(name): not self.timers.get(name, None)
timer_expired(t, name) == IF name \in DOMAIN t THEN t[name] = 0 ELSE TRUE

\* one iteration of __thread_timer over the named timers: decrement all,
\* then drop those whose value is falsy (zero)
tick_timers(t) ==
    LET dec == [n \in DOMAIN t |-> t[n] - 1]
    IN  [n \in {m \in DOMAIN dec : dec[m] # 0} |-> dec[n]]

---------------------------------------------------------------------------
(* TcpSession: the object and the operations its FSM handlers are built of *)
(* A "world" w is what a handler can change: w.s the session's fields,     *)
(* w.t the stack timer's named timers, w.o the segments sent so far.       *)

\* TcpSession.__init__ with local_seq_init = iss
NewSession(iss) ==
    [ state |-> "CLOSED", state_init |-> TRUE,
      rx_buffer |-> << >>, tx_buffer |-> << >>,
      remote_seq_init |-> None, remote_seq_rcvd |-> None, remote_seq_ackd |-> None,
      local_seq_init |-> iss, local_seq_sent |-> iss, local_seq_ackd |-> iss,
      local_seq_fin |-> None,
      tx_buffer_seq_mod |-> iss + 1,
      remote_win |-> None, remote_mss |-> None,
      event_connect |-> 0, event_rx_buffer |-> 0,
      event_tcp_session_established |-> 0,
      syn_sent_resend_count |-> None, syn_rcvd_resend_count |-> None ]

World(s, t, o) == [s |-> s, t |-> t, o |-> o]

\* the packet argument of tcp_fsm when there is none
NoPacket ==
    [ flag_syn |-> FALSE, flag_ack |-> FALSE, flag_fin |-> FALSE, flag_rst |-> FALSE,
      seq |-> None, ack |-> None, raw_data |-> << >>, win |-> None, mss |-> None ]

HasPacket(p) == p.seq # None

\* tx_buffer_seq_sent, tx_buffer_seq_ackd (properties)
tx_buffer_seq_sent(s) == s.local_seq_sent - s.tx_buffer_seq_mod
tx_buffer_seq_ackd(s) == s.local_seq_ackd - s.tx_buffer_seq_mod

\* __change_state
change_state(w, st) == [w EXCEPT !.s.state = st, !.s.state_init = TRUE]

\* "tcp_seq = seq if seq else self.local_seq_sent": None and 0 are both falsy
EffectiveSeq(seq, local_seq_sent) ==
    IF seq # None /\ seq # 0 THEN seq ELSE local_seq_sent

\* the segment phtx_tcp is called with
Segment(seq, ack, syn, ackf, fin, rst, data) ==
    [ seq |-> seq, ack |-> ack, flag_syn |-> syn, flag_ack |-> ackf,
      flag_fin |-> fin, flag_rst |-> rst, raw_data |-> data ]

\* __send_packet
send_packet(w, seq, syn, ackf, fin, rst, data) ==
    LET eff  == EffectiveSeq(seq, w.s.local_seq_sent)
        sent == eff + Len(data) + b2i(syn) + b2i(fin)
        seg  == Segment(eff, IF ackf THEN w.s.remote_seq_rcvd ELSE 0, syn, ackf, fin, rst, data)
        s1   == [w.s EXCEPT !.remote_seq_ackd = w.s.remote_seq_rcvd,
                            !.local_seq_sent = sent,
                            !.local_seq_fin = IF fin THEN sent ELSE @]
    IN  [ s |-> s1,
          t |-> IF w.s.state = "ESTABLISHED"
                THEN register_timer(w.t, "delayed_ack", DELAYED_ACK_DELAY)
                ELSE w.t,
          o |-> Append(w.o, seg) ]

\* an enqueue that puts the new bytes in front
enqueue_rx_buffer_front(s, data) ==
    [s EXCEPT !.rx_buffer = data \o @,
              !.event_rx_buffer = IF @ = 0 THEN 1 ELSE @]

\* __enqueue_rx_buffer
enqueue_rx_buffer(s, data) ==
    [s EXCEPT !.rx_buffer = @ \o data,
              !.event_rx_buffer = IF @ = 0 THEN 1 ELSE @]

\* __process_ack_packet
\* an ACK processing that purges tx_buffer and leaves tx_buffer_seq_mod alone
process_ack_packet_fixed_mod(w, p, send_ack) ==
    LET s1 == [w.s EXCEPT !.local_seq_ackd = Max(@, p.ack),
                          !.remote_seq_rcvd = p.seq + Len(p.raw_data)
                                              + b2i(p.flag_syn) + b2i(p.flag_fin)]
        s2 == IF p.raw_data # << >> THEN enqueue_rx_buffer(s1, p.raw_data) ELSE s1
        w2 == [w EXCEPT !.s = s2]
        w3 == IF send_ack /\ p.raw_data # << >>
              THEN send_packet(w2, None, FALSE, TRUE, FALSE, FALSE, << >>)
              ELSE w2
    IN  [w3 EXCEPT !.s.tx_buffer = PyDelPrefix(@, tx_buffer_seq_ackd(w3.s))]

\* an acknowledgement that drops everything sent so far, acknowledged or not
process_ack_packet_drop_sent(w, p, send_ack) ==
    LET s1 == [w.s EXCEPT !.local_seq_ackd = Max(@, p.ack),
                          !.remote_seq_rcvd = p.seq + Len(p.raw_data)
                                              + b2i(p.flag_syn) + b2i(p.flag_fin)]
        s2 == IF p.raw_data # << >> THEN enqueue_rx_buffer(s1, p.raw_data) ELSE s1
        w2 == [w EXCEPT !.s = s2]
        w3 == IF send_ack /\ p.raw_data # << >>
              THEN send_packet(w2, None, FALSE, TRUE, FALSE, FALSE, << >>)
              ELSE w2
        k  == tx_buffer_seq_ackd(w3.s)
    IN  [w3 EXCEPT !.s.tx_buffer = PyDelPrefix(@, tx_buffer_seq_sent(w3.s)),
                   !.s.tx_buffer_seq_mod = @ + k]

process_ack_packet(w, p, send_ack) ==
    LET s1 == [w.s EXCEPT !.local_seq_ackd = Max(@, p.ack),
                          !.remote_seq_rcvd = p.seq + Len(p.raw_data)
                                              + b2i(p.flag_syn) + b2i(p.flag_fin)]
        s2 == IF p.raw_data # << >> THEN enqueue_rx_buffer(s1, p.raw_data) ELSE s1
        w2 == [w EXCEPT !.s = s2]
        w3 == IF send_ack /\ p.raw_data # << >>
              THEN send_packet(w2, None, FALSE, TRUE, FALSE, FALSE, << >>)
              ELSE w2
        k  == tx_buffer_seq_ackd(w3.s)
    IN  [w3 EXCEPT !.s.tx_buffer = PyDelPrefix(@, k),
                   !.s.tx_buffer_seq_mod = @ + k]

\* a sender that takes no notice of the peer's window
send_data_no_window(w) ==
    IF Len(w.s.tx_buffer) - tx_buffer_seq_sent(w.s) # 0
    THEN send_packet(w, None, FALSE, TRUE, FALSE, FALSE,
                     PySlice(w.s.tx_buffer, tx_buffer_seq_sent(w.s),
                             tx_buffer_seq_sent(w.s) + w.s.remote_mss))
    ELSE w

\* __send_data
send_data(w) ==
    IF Len(w.s.tx_buffer) - tx_buffer_seq_sent(w.s) # 0
    THEN LET win_left == tx_buffer_seq_ackd(w.s) + w.s.remote_win - tx_buffer_seq_sent(w.s)
         IN  IF win_left > 0
             THEN send_packet(w, None, FALSE, TRUE, FALSE, FALSE,
                              PySlice(w.s.tx_buffer, tx_buffer_seq_sent(w.s),
                                      tx_buffer_seq_sent(w.s) + Min(w.s.remote_mss, win_left)))
             ELSE w
    ELSE w

\* a delayed ACK whose timer runs one iteration longer
delayed_ack_late(w) ==
    IF timer_expired(w.t, "delayed_ack")
    THEN LET w1 == IF w.s.remote_seq_rcvd > w.s.remote_seq_ackd
                   THEN send_packet(w, None, FALSE, TRUE, FALSE, FALSE, << >>)
                   ELSE w
         IN  [w1 EXCEPT !.t = register_timer(@, "delayed_ack", DELAYED_ACK_DELAY + 1)]
    ELSE w

\* __delayed_ack
delayed_ack(w) ==
    IF timer_expired(w.t, "delayed_ack")
    THEN LET w1 == IF w.s.remote_seq_rcvd > w.s.remote_seq_ackd
                   THEN send_packet(w, None, FALSE, TRUE, FALSE, FALSE, << >>)
                   ELSE w
         IN  [w1 EXCEPT !.t = register_timer(@, "delayed_ack", DELAYED_ACK_DELAY)]
    ELSE w

\* the flag tests of the handlers: all({...}) and not any({...})
OnlySyn(p)    == HasPacket(p) /\ p.flag_syn /\ ~(p.flag_ack \/ p.flag_fin \/ p.flag_rst)
OnlySynAck(p) == HasPacket(p) /\ p.flag_syn /\ p.flag_ack /\ ~(p.flag_fin \/ p.flag_rst)
OnlyAck(p)    == HasPacket(p) /\ p.flag_ack /\ ~(p.flag_syn \/ p.flag_rst \/ p.flag_fin)
OnlyFinAck(p) == HasPacket(p) /\ p.flag_fin /\ p.flag_ack /\ ~(p.flag_syn \/ p.flag_rst)
OnlyRst(p)    == HasPacket(p) /\ p.flag_rst /\ ~(p.flag_syn \/ p.flag_fin \/ p.flag_ack)

\* the "State initialization" block shared by the handlers that arm nothing
clear_state_init(w) == [w EXCEPT !.s.state_init = FALSE]

\* remote_mss / remote_win taken from the peer's SYN or SYN+ACK
init_remote(w, p) ==
    LET rmss == Min(p.mss, mtu - 80)
    IN  [w EXCEPT !.s.remote_mss = rmss,
                  !.s.remote_win = IF USE_REMOTE_WIN THEN p.win ELSE rmss,
                  !.s.remote_seq_init = p.seq]

---------------------------------------------------------------------------
(* The per-state handlers: tcp_fsm_X(w, p, syscall, timer) is the world    *)
(* after __tcp_fsm_X(packet, syscall, timer) ran on world w.               *)

\* a resend timer whose delay grows by PACKET_RESEND_DELAY on every resend
ResendDelayLinear(n) == PACKET_RESEND_DELAY * (n + 1)

\* the delay the resend timer is armed with after the n-th re-send
ResendDelay(n) == PACKET_RESEND_DELAY * (2 ^ n)

\* the re-send limit test of the SYN_SENT / SYN_RCVD handlers
ResendLimitReached(count) == count = PACKET_RESEND_COUNT

tcp_fsm_closed(w, p, syscall, timer) ==
    LET w0 == clear_state_init(w)
        w1 == IF syscall = "CONNECT"
              THEN change_state(send_packet(w0, None, TRUE, FALSE, FALSE, FALSE, << >>), "SYN_SENT")
              ELSE w0
    IN  IF syscall = "LISTEN" THEN change_state(w1, "LISTEN") ELSE w1

\* a note of the remote SEQ number that does not count the SYN
syn_seq_rcvd_flat(p) == p.seq

\* "self.remote_seq_rcvd = packet.seq + packet.flag_syn"
syn_seq_rcvd(p) == p.seq + b2i(p.flag_syn)

\* a LISTEN handler that also takes the CONNECT syscall
tcp_fsm_listen_connect(w, p, syscall, timer) ==
    IF syscall = "CONNECT"
    THEN change_state(send_packet(clear_state_init(w), None, TRUE, FALSE, FALSE, FALSE, << >>),
                      "SYN_SENT")
    ELSE clear_state_init(w)

tcp_fsm_listen(w, p, syscall, timer) ==
    LET w0 == clear_state_init(w)
    IN  IF OnlySyn(p) /\ p.ack = 0 /\ p.raw_data = << >>
        THEN LET w1 == init_remote(w0, p)
                 w2 == [w1 EXCEPT !.s.remote_seq_rcvd = syn_seq_rcvd(p)]
             IN  change_state(send_packet(w2, None, TRUE, TRUE, FALSE, FALSE, << >>), "SYN_RCVD")
        ELSE IF syscall = "CLOSE" THEN change_state(w0, "CLOSED")
        ELSE w0

\* the state initialization of SYN_SENT
syn_sent_init(w) ==
    IF w.s.state_init
    THEN [w EXCEPT !.s.state_init = FALSE,
                   !.s.syn_sent_resend_count = 0,
                   !.t = register_timer(@, "syn_sent", PACKET_RESEND_DELAY)]
    ELSE w

\* what the connect() caller is told when the handshake is abandoned or reset
signal_connect(w) == [w EXCEPT !.s.event_connect = @ + 1]

tcp_fsm_syn_sent(w, p, syscall, timer) ==
    LET w0 == syn_sent_init(w)
    IN  IF timer /\ timer_expired(w0.t, "syn_sent") /\ w0.s.local_seq_ackd < w0.s.local_seq_sent
        THEN IF ResendLimitReached(w0.s.syn_sent_resend_count)
             THEN change_state(w0, "CLOSED")
             ELSE LET w1 == send_packet(w0, w0.s.local_seq_ackd, TRUE, FALSE, FALSE, FALSE, << >>)
                      n  == w1.s.syn_sent_resend_count + 1
                  IN  [w1 EXCEPT !.s.syn_sent_resend_count = n,
                                 !.t = register_timer(@, "syn_sent", ResendDelay(n))]
        ELSE IF OnlySynAck(p) /\ p.ack = w0.s.local_seq_sent /\ p.raw_data = << >>
        THEN LET w1 == init_remote(process_ack_packet(w0, p, FALSE), p)
             IN  change_state(send_packet(w1, None, FALSE, TRUE, FALSE, FALSE, << >>), "ESTABLISHED")
        \* "Got SYN packet": all({flag_syn}) and not any({flag_ack, flag_fin, flag_syn})
        ELSE IF HasPacket(p) /\ p.flag_syn /\ ~(p.flag_ack \/ p.flag_fin \/ p.flag_syn)
                /\ p.ack = 0 /\ p.raw_data = << >>
        THEN change_state(send_packet(w0, None, TRUE, TRUE, FALSE, FALSE, << >>), "SYN_RCVD")
        \* "Got RST packet": all({flag_rst}) and not any({flag_fin, flag_syn})
        ELSE IF HasPacket(p) /\ p.flag_rst /\ ~(p.flag_fin \/ p.flag_syn)
        THEN signal_connect(change_state(w0, "CLOSED"))
        ELSE IF syscall = "CLOSE" THEN change_state(w0, "CLOSED")
        ELSE w0

\* the state initialization of SYN_RCVD
syn_rcvd_init(w) ==
    IF w.s.state_init
    THEN [w EXCEPT !.s.state_init = FALSE,
                   !.s.syn_rcvd_resend_count = 0,
                   !.t = register_timer(@, "syn_rcvd", PACKET_RESEND_DELAY)]
    ELSE w

tcp_fsm_syn_rcvd(w, p, syscall, timer) ==
    LET w0 == syn_rcvd_init(w)
    IN  IF timer /\ timer_expired(w0.t, "syn_rcvd") /\ w0.s.local_seq_ackd < w0.s.local_seq_sent
        THEN IF ResendLimitReached(w0.s.syn_rcvd_resend_count)
             THEN change_state(w0, "CLOSED")
             ELSE LET w1 == send_packet(w0, w0.s.local_seq_ackd, TRUE, TRUE, FALSE, FALSE, << >>)
                      n  == w1.s.syn_rcvd_resend_count + 1
                  IN  [w1 EXCEPT !.s.syn_rcvd_resend_count = n,
                                 !.t = register_timer(@, "syn_rcvd", ResendDelay(n))]
        ELSE IF OnlyAck(p) /\ p.seq = w0.s.remote_seq_rcvd /\ p.ack = w0.s.local_seq_sent
                /\ p.raw_data = << >>
        THEN change_state(process_ack_packet(w0, p, FALSE), "ESTABLISHED")
        ELSE IF syscall = "CLOSE"
        THEN change_state(send_packet(w0, None, FALSE, TRUE, TRUE, FALSE, << >>), "FIN_WAIT_1")
        ELSE w0

\* an ESTABLISHED initialization that forgets the connect() caller
established_init_silent(w) ==
    IF w.s.state_init
    THEN [w EXCEPT !.s.state_init = FALSE,
                   !.s.event_tcp_session_established = @ + 1]
    ELSE w

\* the state initialization of ESTABLISHED: tell accept() and connect()
established_init(w) ==
    IF w.s.state_init
    THEN [w EXCEPT !.s.state_init = FALSE,
                   !.s.event_tcp_session_established = @ + 1,
                   !.s.event_connect = @ + 1]
    ELSE w

\* a sanity check that takes segments out of order
SaneAnySeq(s, p) == p.ack <= s.local_seq_sent

\* the packet sanity check of ESTABLISHED, FIN_WAIT_1, FIN_WAIT_2
Sane(s, p) == p.seq = s.remote_seq_rcvd /\ p.ack <= s.local_seq_sent

\* a FIN + ACK handling that forgets to tell the application
established_fin_quiet(w, p) == process_ack_packet(w, p, TRUE)

\* ESTABLISHED on a sane FIN + ACK, up to and including the release of the
\* RX semaphore: the change of state follows (FinChangeState)
established_fin(w, p) ==
    LET w1 == process_ack_packet(w, p, TRUE)
    IN  [w1 EXCEPT !.s.event_rx_buffer = @ + 1]

tcp_fsm_established(w, p, syscall, timer) ==
    LET w0 == established_init(w)
    IN  IF timer THEN delayed_ack(send_data(w0))
        ELSE IF OnlyAck(p) /\ Sane(w0.s, p) THEN process_ack_packet(w0, p, FALSE)
        ELSE IF OnlyFinAck(p) /\ Sane(w0.s, p)
        THEN change_state(established_fin(w0, p), "CLOSE_WAIT")
        ELSE IF syscall = "CLOSE"
        THEN change_state(send_packet(w0, None, FALSE, TRUE, TRUE, FALSE, << >>), "FIN_WAIT_1")
        ELSE w0

tcp_fsm_fin_wait_1(w, p, syscall, timer) ==
    LET w0 == clear_state_init(w)
    IN  IF OnlyAck(p)
        THEN IF Sane(w0.s, p)
             THEN LET w1 == process_ack_packet(w0, p, TRUE)
                  IN  IF p.ack >= w1.s.local_seq_fin THEN change_state(w1, "FIN_WAIT_2") ELSE w1
             ELSE w0
        ELSE IF OnlyFinAck(p)
        THEN IF Sane(w0.s, p)
             THEN LET w1 == send_packet(process_ack_packet(w0, p, FALSE), None,
                                        FALSE, TRUE, FALSE, FALSE, << >>)
                  IN  IF p.ack >= w1.s.local_seq_fin
                      THEN change_state(w1, "TIME_WAIT")
                      ELSE change_state(w1, "CLOSING")
             ELSE w0
        ELSE w0

tcp_fsm_fin_wait_2(w, p, syscall, timer) ==
    LET w0 == clear_state_init(w)
    IN  IF OnlyAck(p) /\ Sane(w0.s, p) THEN process_ack_packet(w0, p, TRUE)
        ELSE IF OnlyFinAck(p) /\ Sane(w0.s, p)
        THEN change_state(send_packet(process_ack_packet(w0, p, FALSE), None,
                                      FALSE, TRUE, FALSE, FALSE, << >>), "TIME_WAIT")
        ELSE w0

\* a CLOSING that takes every ACK within what was sent for the ACK of the FIN
tcp_fsm_closing_any_ack(w, p, syscall, timer) ==
    LET w0 == clear_state_init(w)
    IN  IF OnlyAck(p) /\ p.ack <= w0.s.local_seq_sent
        THEN change_state([w0 EXCEPT !.s.local_seq_ackd = p.ack], "TIME_WAIT")
        ELSE w0

tcp_fsm_closing(w, p, syscall, timer) ==
    LET w0 == clear_state_init(w)
    IN  IF OnlyAck(p) /\ p.ack = w0.s.local_seq_sent /\ p.ack <= w0.s.local_seq_sent
        THEN change_state([w0 EXCEPT !.s.local_seq_ackd = p.ack], "TIME_WAIT")
        ELSE w0

tcp_fsm_close_wait(w, p, syscall, timer) ==
    LET w0 == clear_state_init(w)
    IN  IF timer THEN delayed_ack(send_data(w0))
        ELSE IF OnlyAck(p) /\ Sane(w0.s, p) /\ p.raw_data = << >>
        THEN process_ack_packet(w0, p, FALSE)
        ELSE IF syscall = "CLOSE"
        THEN change_state(send_packet(w0, None, FALSE, TRUE, TRUE, FALSE, << >>), "LAST_ACK")
        ELSE IF OnlyRst(p) /\ p.ack = 0 /\ p.seq = w0.s.remote_seq_rcvd
        THEN change_state(w0, "CLOSED")
        ELSE w0

tcp_fsm_last_ack(w, p, syscall, timer) ==
    LET w0 == clear_state_init(w)
    IN  IF OnlyAck(p)
        THEN IF p.ack = w0.s.local_seq_sent /\ p.ack <= w0.s.local_seq_sent
             THEN change_state(w0, "CLOSED")
             ELSE w0
        ELSE IF OnlyRst(p) /\ p.ack = 0 /\ p.seq = w0.s.remote_seq_rcvd
        THEN change_state(w0, "CLOSED")
        ELSE w0

\* the state initialization of TIME_WAIT
time_wait_init(w) ==
    IF w.s.state_init
    THEN [w EXCEPT !.s.state_init = FALSE,
                   !.t = register_timer(@, "time_wait", TIME_WAIT_DELAY)]
    ELSE w

\* a TIME_WAIT that the peer's RST ends
tcp_fsm_time_wait_rst(w, p, syscall, timer) ==
    LET w0 == time_wait_init(w)
    IN  IF (timer /\ timer_expired(w0.t, "time_wait")) \/ OnlyRst(p)
        THEN change_state(w0, "CLOSED")
        ELSE w0

tcp_fsm_time_wait(w, p, syscall, timer) ==
    LET w0 == time_wait_init(w)
    IN  IF timer /\ timer_expired(w0.t, "time_wait") THEN change_state(w0, "CLOSED") ELSE w0

\* tcp_fsm: the dispatch on self.state (under lock_fsm)
tcp_fsm(w, p, syscall, timer) ==
    CASE w.s.state = "CLOSED"      -> tcp_fsm_closed(w, p, syscall, timer)
      [] w.s.state = "LISTEN"      -> tcp_fsm_listen(w, p, syscall, timer)
      [] w.s.state = "SYN_SENT"    -> tcp_fsm_syn_sent(w, p, syscall, timer)
      [] w.s.state = "SYN_RCVD"    -> tcp_fsm_syn_rcvd(w, p, syscall, timer)
      [] w.s.state = "ESTABLISHED" -> tcp_fsm_established(w, p, syscall, timer)
      [] w.s.state = "FIN_WAIT_1"  -> tcp_fsm_fin_wait_1(w, p, syscall, timer)
      [] w.s.state = "FIN_WAIT_2"  -> tcp_fsm_fin_wait_2(w, p, syscall, timer)
      [] w.s.state = "CLOSING"     -> tcp_fsm_closing(w, p, syscall, timer)
      [] w.s.state = "CLOSE_WAIT"  -> tcp_fsm_close_wait(w, p, syscall, timer)
      [] w.s.state = "LAST_ACK"    -> tcp_fsm_last_ack(w, p, syscall, timer)
      [] w.s.state = "TIME_WAIT"   -> tcp_fsm_time_wait(w, p, syscall, timer)

---------------------------------------------------------------------------
(* The threads                                                             *)

Cur == World(sess, timers, tx_log)

Commit(w) == sess' = w.s /\ timers' = w.t /\ tx_log' = w.o

\* what a finished call returned: ok is connect()'s boolean; none tells that
\* the call returned None; bytes is receive()'s byte string; count is send()'s
\* integer; arg is the byte_count receive() was called with
Ret(call, ok, none, bytes, count, arg) ==
    [call |-> call, ok |-> ok, none |-> none, bytes |-> bytes, count |-> count, arg |-> arg]

NoRet == Ret("", FALSE, FALSE, << >>, 0, None)

Packet(f, seq, ack, data, win, mss) ==
    [ flag_syn |-> f \in {"S", "SA"}, flag_ack |-> f \in {"SA", "A", "FA"},
      flag_fin |-> f = "FA", flag_rst |-> f = "R",
      seq |-> seq, ack |-> ack, raw_data |-> data, win |-> win, mss |-> mss ]

\* the segments the peer may send to a session whose ISS is iss.  The window
\* and MSS options matter on SYN and SYN + ACK only, the payload of a RST is
\* never looked at; a SYN or RST is tested for ack = 0, a SYN + ACK for ack =
\* local_seq_sent, an ACK or FIN + ACK for ack <= local_seq_sent.
AckValues(iss) == {iss + k : k \in AckOffsets}

Packets(iss) ==
    { Packet("S", seq, ack, data, win, mss) :
        seq \in PeerSeqValues, ack \in {0, iss + 1},
        data \in Payloads, win \in WinValues, mss \in MssValues }
    \cup
    { Packet("SA", seq, ack, data, win, mss) :
        seq \in PeerSeqValues, ack \in {iss + 1, iss + 2},
        data \in Payloads, win \in WinValues, mss \in MssValues }
    \cup
    { Packet(f, seq, ack, data, 1, 1) :
        f \in {"A", "FA"}, seq \in PeerSeqValues, ack \in AckValues(iss),
        data \in Payloads }
    \cup
    { Packet("R", seq, ack, << >>, 1, 1) :
        seq \in PeerSeqValues, ack \in {0, iss + 1} }

ArpIps == {1, 2}

\* ArpCache after its constructor: no entry, nothing enqueued, the maintenance
\* thread about to make its first scan; ring tells whether tx_ring is bound
InitArp(ring) ==
    /\ arp_cache = << >>
    /\ arp_tx = [ip \in ArpIps |-> 0]
    /\ arp_tx_ring = ring
    /\ maintain_pc = "wake"
    /\ scan_todo = {}
    /\ find_ret = [ip |-> None, mac |-> None]

\* PacketHandler when its constructor has started the receive thread and is
\* about to send the first probe
InitPh ==
    /\ ph_pc = "probe"
    /\ ph_i = 0
    /\ ph_conflict = FALSE
    /\ ph_claimed = FALSE
    /\ ph_tx = << >>
    /\ ph_clock = 0

\* the link layer where a single session is studied
InitLink == InitArp(FALSE) /\ InitPh

Threads == {"rx", "app", "timer"}

\* the arguments of tcp_fsm
Event(p, syscall, timer) == [packet |-> p, syscall |-> syscall, timer |-> timer]

\* lock_fsm is free and no thread is about to call tcp_fsm
InitLock ==
    /\ lock_fsm = ""
    /\ thread_pc = [t \in Threads |-> "out"]
    /\ thread_ev = [t \in Threads |-> Event(NoPacket, "NONE", FALSE)]
    /\ seen = [t \in Threads |-> None]

\* StackTimer after its constructor: no task, no timer registered by name
InitTasks ==
    /\ tasks = << >>
    /\ task_log = << >>
    /\ timer_log = << >>
    /\ ticks = 0
    /\ stop_now = FALSE

\* no acknowledgement is owed yet, no time_wait timer armed
InitOwed == ack_owed = 0 /\ tw_elapsed = 0

\* the timer thread sleeps before its first iteration; no other thread is in a
\* call of register_timer or register_method
NoIter == [todo |-> {}, used |-> 0, name |-> "", value |-> 0, idx |-> 0,
           new_timers |-> << >>, new_tasks |-> << >>]
NoCall == [name |-> "", timeout |-> 0, delay |-> 0, replaced |-> FALSE]

InitRace ==
    /\ tick_pc = "sleep"
    /\ tick_it = NoIter
    /\ reg_pc = "out"
    /\ reg_call = NoCall

InitSession(iss) ==
    /\ sess = NewSession(iss)
    /\ timers = << >>
    /\ tx_log = << >>
    /\ fsm_pc = "idle"
    /\ app_pc = "idle"
    /\ app_arg = None
    /\ app_ret = NoRet
    /\ events = 0
    /\ heard = FALSE
    /\ tcp_sessions = << >>
    /\ heap = << >>
    /\ InitLock
    /\ InitTasks
    /\ InitOwed
    /\ InitRace
    /\ InitLink

Init == \E iss \in ISSValues : InitSession(iss)

InitHandshake == \E iss \in ISSValuesHandshake : InitSession(iss)

AppVarsUnchanged == UNCHANGED <<app_pc, app_arg, app_ret>>

\* whether one more event fits in the run, and the count of one
Budget == events < MaxEvents
Count == events' = events + 1

\* One iteration of StackTimer.__thread_timer: the named timers are
\* decremented and the expired ones dropped, then the session's task (delay 1,
\* repeating for ever) runs tcp_fsm(timer=True).
timer_iteration(w) == tcp_fsm([w EXCEPT !.t = tick_timers(@)], NoPacket, "NONE", TRUE)

TimerThread ==
    /\ fsm_pc = "idle"
    /\ Commit(timer_iteration(Cur))
    /\ UNCHANGED <<fsm_pc, heard, stack_vars>>
    /\ AppVarsUnchanged

\* the timer thread in a run of at most MaxEvents events
Tick ==
    /\ Budget
    /\ Count
    /\ TimerThread

\* the timer thread in a run where the peer stays silent: it runs on for ever
TickQuiet ==
    /\ Budget \/ ~heard
    /\ events' = IF Budget THEN events + 1 ELSE events
    /\ TimerThread

\* The receive thread hands packet p to tcp_fsm.  A sane FIN + ACK in
\* ESTABLISHED is handled in two steps, since the application thread can run
\* between the release of the RX semaphore and the change of state.
FinAccepted(w, p) ==
    w.s.state = "ESTABLISHED" /\ OnlyFinAck(p) /\ Sane(w.s, p)

DeliverPacket(p) ==
    /\ fsm_pc = "idle"
    /\ Budget
    /\ Count
    /\ heard' = TRUE
    /\ UNCHANGED stack_vars
    /\ IF FinAccepted(Cur, p)
       THEN /\ Commit(established_fin(established_init(Cur), p))
            /\ fsm_pc' = "fin_change_state"
       ELSE /\ Commit(tcp_fsm(Cur, p, "NONE", FALSE))
            /\ fsm_pc' = fsm_pc
    /\ AppVarsUnchanged

Deliver == \E p \in Packets(sess.local_seq_init) : DeliverPacket(p)

FinChangeState ==
    /\ fsm_pc = "fin_change_state"
    /\ Commit(change_state(Cur, "CLOSE_WAIT"))
    /\ fsm_pc' = "idle"
    /\ UNCHANGED <<events, heard, stack_vars>>
    /\ AppVarsUnchanged

\* ---- the application thread ----

CanCall == app_pc = "idle" /\ Budget

Syscall(name) ==
    /\ fsm_pc = "idle"
    /\ Commit(tcp_fsm(Cur, NoPacket, name, FALSE))

\* listen()
AppListen ==
    /\ CanCall
    /\ Syscall("LISTEN")
    /\ Count
    /\ app_ret' = Ret("listen", FALSE, TRUE, << >>, 0, None)
    /\ UNCHANGED <<fsm_pc, app_pc, app_arg, heard, stack_vars>>

\* connect(): the CONNECT syscall, then event_connect.acquire(), then the
\* read of self.state
AppConnect ==
    /\ CanCall
    /\ Syscall("CONNECT")
    /\ Count
    /\ app_pc' = "connect_wait"
    /\ UNCHANGED <<fsm_pc, app_arg, app_ret, heard, stack_vars>>

ConnectAcquire ==
    /\ app_pc = "connect_wait"
    /\ sess.event_connect > 0
    /\ sess' = [sess EXCEPT !.event_connect = @ - 1]
    /\ app_pc' = "connect_return"
    /\ UNCHANGED <<timers, tx_log, fsm_pc, app_arg, app_ret, events, heard, stack_vars>>

ConnectResult(s) == s.state = "ESTABLISHED"

ConnectReturn ==
    /\ app_pc = "connect_return"
    /\ app_ret' = Ret("connect", ConnectResult(sess), FALSE, << >>, 0, None)
    /\ app_pc' = "idle"
    /\ UNCHANGED <<sess, timers, tx_log, fsm_pc, app_arg, events, heard, stack_vars>>

\* send(raw_data)
SendLegal(s) == s.state \in {"ESTABLISHED", "CLOSE_WAIT"}

\* what send() returns: len(raw_data), or None when it falls off its end
SendResult(s, data) ==
    IF SendLegal(s)
    THEN Ret("send", FALSE, FALSE, << >>, Len(data), None)
    ELSE Ret("send", FALSE, TRUE, << >>, 0, None)

send(s, data) ==
    IF SendLegal(s) THEN [s EXCEPT !.tx_buffer = @ \o data] ELSE s

AppSend(data) ==
    /\ CanCall
    /\ sess' = send(sess, data)
    /\ app_ret' = SendResult(sess, data)
    /\ Count
    /\ UNCHANGED <<timers, tx_log, fsm_pc, app_pc, app_arg, heard, stack_vars>>

\* receive(byte_count): event_rx_buffer.acquire(); the test for end of
\* stream; the section under lock_rx_buffer
AppReceive(n) ==
    /\ CanCall
    /\ Count
    /\ app_pc' = "recv_acquire"
    /\ app_arg' = n
    /\ UNCHANGED <<sess, timers, tx_log, fsm_pc, app_ret, heard, stack_vars>>

ReceiveAcquire ==
    /\ app_pc = "recv_acquire"
    /\ sess.event_rx_buffer > 0
    /\ sess' = [sess EXCEPT !.event_rx_buffer = @ - 1]
    /\ app_pc' = "recv_check"
    /\ UNCHANGED <<timers, tx_log, fsm_pc, app_arg, app_ret, events, heard, stack_vars>>

\* "if not self.rx_buffer and self.state == 'CLOSE_WAIT': return None"
ReceiveEof(s) == s.rx_buffer = << >> /\ s.state = "CLOSE_WAIT"

ReceiveCheck ==
    /\ app_pc = "recv_check"
    /\ IF ReceiveEof(sess)
       THEN /\ app_ret' = Ret("receive", FALSE, TRUE, << >>, 0, app_arg)
            /\ app_pc' = "idle"
       ELSE /\ app_ret' = app_ret
            /\ app_pc' = "recv_read"
    /\ UNCHANGED <<sess, timers, tx_log, fsm_pc, app_arg, events, heard, stack_vars>>

\* a receive() that takes one byte too many
ReceiveCountOver(s, n) == IF n = None THEN Len(s.rx_buffer) ELSE Min(n + 1, Len(s.rx_buffer))

\* the number of bytes receive() takes
ReceiveCount(s, n) == IF n = None THEN Len(s.rx_buffer) ELSE Min(n, Len(s.rx_buffer))

\* the bytes receive() returns: self.rx_buffer[:byte_count]
ReceiveBytes(s, n) == PySlice(s.rx_buffer, 0, ReceiveCount(s, n))

\* "if len(self.rx_buffer) or self.state == 'CLOSE_WAIT': release"
ReceiveRepost(s) == Len(s.rx_buffer) # 0 \/ s.state = "CLOSE_WAIT"

\* the session after the section of receive() under lock_rx_buffer
receive_locked(s, n) ==
    LET s1 == [s EXCEPT !.rx_buffer = PyDelPrefix(@, ReceiveCount(s, n))]
    IN  IF ReceiveRepost(s1) THEN [s1 EXCEPT !.event_rx_buffer = @ + 1] ELSE s1

ReceiveRead ==
    /\ app_pc = "recv_read"
    /\ sess' = receive_locked(sess, app_arg)
    /\ app_ret' = Ret("receive", FALSE, FALSE, ReceiveBytes(sess, app_arg), 0, app_arg)
    /\ app_pc' = "idle"
    /\ UNCHANGED <<timers, tx_log, fsm_pc, app_arg, events, heard, stack_vars>>

\* close(): the wait for an empty tx_buffer, then the CLOSE syscall
AppClose ==
    /\ CanCall
    /\ Count
    /\ app_pc' = "close_spin"
    /\ UNCHANGED <<sess, timers, tx_log, fsm_pc, app_arg, app_ret, heard, stack_vars>>

\* a close() that does not wait
CloseReadyAlways(s) == TRUE

\* "while self.tx_buffer: time.sleep(0.1)" is left
CloseReady(s) == s.tx_buffer = << >>

CloseSpinExit ==
    /\ app_pc = "close_spin"
    /\ CloseReady(sess)
    /\ app_pc' = "close_inject"
    /\ UNCHANGED <<sess, timers, tx_log, fsm_pc, app_arg, app_ret, events, heard, stack_vars>>

CloseInject ==
    /\ app_pc = "close_inject"
    /\ Syscall("CLOSE")
    /\ app_ret' = Ret("close", FALSE, TRUE, << >>, 0, None)
    /\ app_pc' = "idle"
    /\ UNCHANGED <<fsm_pc, app_arg, events, heard, stack_vars>>

AppStep ==
    \/ AppListen
    \/ AppConnect
    \/ ConnectAcquire
    \/ ConnectReturn
    \/ \E d \in SendData : AppSend(d)
    \/ \E n \in ByteCounts : AppReceive(n)
    \/ ReceiveAcquire
    \/ ReceiveCheck
    \/ ReceiveRead
    \/ AppClose
    \/ CloseSpinExit
    \/ CloseInject

Next ==
    \/ Tick
    \/ Deliver
    \/ FinChangeState
    \/ AppStep

Spec == Init /\ [][Next]_vars

\* The handshake with a peer that answers early or never: the application
\* only connects; the timer thread is scheduled again and again, and so is the
\* application thread when it can run.
NextHandshake ==
    \/ TickQuiet
    \/ Deliver
    \/ AppConnect
    \/ ConnectAcquire
    \/ ConnectReturn

SpecHandshake ==
    /\ InitHandshake
    /\ [][NextHandshake]_vars
    /\ WF_vars(TickQuiet)
    /\ WF_vars(ConnectAcquire)
    /\ WF_vars(ConnectReturn)


---------------------------------------------------------------------------
(* The handshake with a silent peer                                        *)

\* the SYN segments among the segments emitted so far
IsSyn(seg) == seg.flag_syn /\ ~seg.flag_ack /\ ~seg.flag_fin /\ ~seg.flag_rst
SynCount == Cardinality({i \in 1..Len(tx_log) : IsSyn(tx_log[i])})

\* connect() was called and the peer has not answered
Unanswered == ~heard /\ tx_log # << >>

\* connect() has returned false
ConnectReturnedFalse ==
    app_pc = "idle" /\ app_ret.call = "connect" /\ ~app_ret.ok

\* C1: once connect() waits and the peer never answers, the session reaches
\* CLOSED and the waiting connect() returns, with the value false.
C1_ConnectTimesOut ==
    (app_pc = "connect_wait" /\ ~heard)
        ~> (heard \/ (sess.state = "CLOSED" /\ ConnectReturnedFalse))

\* the delays the resend timer is armed with, in timer iterations of 1 ms
ArmedDelays == <<1000, 2000, 4000, 8000, 16000>>

\* with a silent peer only SYN segments leave, at most five of them; in
\* SYN_SENT their number is the resend count plus one and the timer runs
\* within the delay of that count; back in CLOSED there were exactly five
C3_Schedule ==
    Unanswered =>
        /\ SynCount = Len(tx_log)
        /\ SynCount <= PACKET_RESEND_COUNT + 1
        /\ (sess.state = "SYN_SENT" /\ ~sess.state_init) =>
                /\ SynCount = sess.syn_sent_resend_count + 1
                /\ "syn_sent" \in DOMAIN timers
                /\ timers["syn_sent"] <= ArmedDelays[SynCount]
        /\ sess.state = "CLOSED" =>
                /\ SynCount = PACKET_RESEND_COUNT + 1
                /\ sess.syn_sent_resend_count = PACKET_RESEND_COUNT
        /\ sess.state \in {"SYN_SENT", "CLOSED"}

\* a step of the timer thread, with a silent peer, in SYN_SENT: a timer that
\* has not expired lets nothing happen; a SYN leaves only when the timer
\* expired, and the timer is then armed with the delay of the new count; an
\* expiry at count PACKET_RESEND_COUNT sends nothing and closes the session
C3_Step ==
    (Unanswered /\ sess.state = "SYN_SENT" /\ ~sess.state_init /\ timers' # timers) =>
        IF timers["syn_sent"] > 1
        THEN tx_log' = tx_log /\ sess' = sess
        ELSE IF sess.syn_sent_resend_count = PACKET_RESEND_COUNT
        THEN tx_log' = tx_log /\ sess'.state = "CLOSED"
        ELSE /\ Len(tx_log') = Len(tx_log) + 1
             /\ IsSyn(tx_log'[Len(tx_log')])
             /\ timers'["syn_sent"] = ArmedDelays[SynCount + 1]
             /\ sess'.state = "SYN_SENT"

\* the first arming: the first event handled in SYN_SENT arms the timer with
\* PACKET_RESEND_DELAY
C3_FirstArm ==
    (sess.state = "SYN_SENT" /\ sess.state_init /\ sess'.state = "SYN_SENT") =>
        /\ ~sess'.state_init
        /\ timers'["syn_sent"] = ArmedDelays[1]

\* C3: with a non-responding peer exactly 5 SYN segments are emitted (1
\* initial + 4 retries); the resend timer is armed successively with
\* PACKET_RESEND_DELAY * 2^n = 1 s, 2 s, 4 s, 8 s, 16 s; when it expires with
\* the resend count at PACKET_RESEND_COUNT no further SYN is sent and the
\* state becomes CLOSED.
C3_SynRetransmission ==
    /\ []C3_Schedule
    /\ [][C3_Step /\ C3_FirstArm]_vars

\* the handshake was given up: five SYNs were sent and the session is CLOSED
C3_GaveUp ==
    /\ Unanswered
    /\ sess.state = "CLOSED"
    /\ SynCount = 5
    /\ app_pc = "connect_wait"


---------------------------------------------------------------------------
(* The active open                                                         *)

ISS == sess.local_seq_init

\* the session after the receive thread handed packet p to tcp_fsm
OnPacket(p) == tcp_fsm(Cur, p, "NONE", FALSE)

\* the segment emitted last
LastSent(o) == o[Len(o)]

\* connect() on the new session emits one SYN with seq = ISS and enters
\* SYN_SENT
C2_Connect ==
    (app_pc = "idle" /\ app_pc' = "connect_wait" /\ sess.state = "CLOSED" /\ tx_log = << >>) =>
        /\ tx_log' = <<Segment(ISS, 0, TRUE, FALSE, FALSE, FALSE, << >>)>>
        /\ sess'.state = "SYN_SENT"

\* in SYN_SENT after that one SYN, whatever SYN + ACK with ack = ISS + 1 and
\* no payload arrives, with seq = r: an ACK with seq = ISS + 1 and ack = r + 1
\* is emitted and the state becomes ESTABLISHED
C2_SynAck ==
    (sess.state = "SYN_SENT" /\ Len(tx_log) = 1) =>
        \A p \in Packets(ISS) :
            (OnlySynAck(p) /\ p.ack = ISS + 1 /\ p.raw_data = << >>) =>
                /\ OnPacket(p).o =
                       Append(tx_log, Segment(ISS + 1, p.seq + 1, FALSE, TRUE, FALSE, FALSE, << >>))
                /\ OnPacket(p).s.state = "ESTABLISHED"

\* the first event handled in ESTABLISHED releases the connect() caller
C2_Release ==
    (sess.state = "ESTABLISHED" /\ sess.state_init
        /\ (sess'.state # "ESTABLISHED" \/ ~sess'.state_init)) =>
        sess'.event_connect = sess.event_connect + 1

\* a released connect() returns true when it finds the session ESTABLISHED
C2_Return ==
    (app_pc = "connect_return" /\ app_pc' = "idle") =>
        /\ app_ret'.call = "connect"
        /\ app_ret'.ok = (sess.state = "ESTABLISHED")

\* C2: from CLOSED, connect() emits one SYN with seq = ISS and enters
\* SYN_SENT; when a SYN+ACK with ack = ISS+1 and seq = r (no payload) then
\* arrives, an ACK with seq = ISS+1 and ack = r+1 is emitted, the state
\* becomes ESTABLISHED, and connect() returns true.
C2_ActiveOpen ==
    /\ []C2_SynAck
    /\ [][C2_Connect /\ C2_Release /\ C2_Return]_vars

\* the active open went through: SYN, SYN + ACK, ACK, and connect() said true
C2_Opened ==
    /\ Len(tx_log) = 2
    /\ IsSyn(tx_log[1]) /\ tx_log[1].seq = ISS
    /\ tx_log[2] = Segment(ISS + 1, sess.remote_seq_init + 1, FALSE, TRUE, FALSE, FALSE, << >>)
    /\ sess.state = "ESTABLISHED"
    /\ app_pc = "idle" /\ app_ret.call = "connect" /\ app_ret.ok


---------------------------------------------------------------------------
(* receive() and send()                                                    *)

\* receive() has returned None: the end of the stream was reported
EofReported == app_pc = "idle" /\ app_ret.call = "receive" /\ app_ret.none

\* C4: once the session is in CLOSE_WAIT with an empty rx_buffer every
\* receive() returns None without blocking, the calls made after the end of
\* the stream was first reported included: the RX signal is posted whenever
\* the session is in CLOSE_WAIT.
C4_EofSticky ==
    (EofReported /\ sess.state = "CLOSE_WAIT" /\ sess.rx_buffer = << >>) =>
        sess.event_rx_buffer > 0

\* C5: under every interleaving of the receiving thread with the packet
\* processing, a receive() called with no byte count returns a non-empty
\* byte sequence or None, never an empty byte sequence.
C5_NeverEmpty ==
    (app_ret.call = "receive" /\ app_ret.arg = None /\ ~app_ret.none) =>
        app_ret.bytes # << >>

\* the section of receive() under lock_rx_buffer is entered with byte count n
\* on buffer buf: the first min(n, len) bytes (all without n) are returned,
\* exactly those leave the head of the buffer, the rest stays in order; with
\* n = 0 and data present the buffer is left alone and the RX signal posted
C6_Read ==
    (app_pc = "recv_read" /\ app_pc' = "idle" /\ sess.rx_buffer # << >>) =>
        LET buf == sess.rx_buffer
            k   == IF app_arg = None THEN Len(buf)
                   ELSE IF app_arg < Len(buf) THEN app_arg ELSE Len(buf)
        IN  /\ app_ret'.call = "receive" /\ ~app_ret'.none
            /\ app_ret'.bytes = SubSeq(buf, 1, k)
            /\ sess'.rx_buffer = SubSeq(buf, k + 1, Len(buf))
            /\ app_ret'.bytes \o sess'.rx_buffer = buf
            /\ app_arg = 0 =>
                    /\ app_ret'.bytes = << >>
                    /\ sess'.rx_buffer = buf
                    /\ sess'.event_rx_buffer > 0

\* with data present and no receive() past its acquire, the RX signal is
\* posted: the next receive() does not block
C6_Posted ==
    (sess.rx_buffer # << >> /\ app_pc \notin {"recv_check", "recv_read"}) =>
        sess.event_rx_buffer > 0

\* C6: receive(max_bytes) with data present returns exactly the first
\* min(max_bytes, len(rx_buffer)) bytes of rx_buffer in arrival order (all
\* when max_bytes is unspecified), removes exactly those from the head and
\* leaves the rest in order; receive(0) with data present returns an empty
\* byte sequence without blocking and leaves rx_buffer unchanged and the RX
\* signal posted.
C6_Receive ==
    /\ []C6_Posted
    /\ [][C6_Read]_vars

\* receive(1) took the first of two bytes and left the second
C6_Partial ==
    /\ app_pc = "idle" /\ app_ret.call = "receive" /\ app_ret.arg = 1
    /\ app_ret.bytes = <<7>>
    /\ sess.rx_buffer = <<8>>
    /\ sess.event_rx_buffer > 0

\* C7: send(bytes) in ESTABLISHED or CLOSE_WAIT appends the bytes to the
\* tail of tx_buffer and returns their count; in every other state it is a
\* no-op that leaves tx_buffer and all sequence variables unchanged and
\* returns 0.
C7_Send ==
    [][(app_ret' # app_ret /\ app_ret'.call = "send") =>
          IF sess.state \in {"ESTABLISHED", "CLOSE_WAIT"}
          THEN \E d \in SendData :
                  /\ sess'.tx_buffer = sess.tx_buffer \o d
                  /\ ~app_ret'.none /\ app_ret'.count = Len(d)
          ELSE /\ sess' = sess
               /\ ~app_ret'.none /\ app_ret'.count = 0]_vars


---------------------------------------------------------------------------
(* close(), the passive open, the close started by the peer                *)

FinAck(seq, ack) == Segment(seq, ack, FALSE, TRUE, TRUE, FALSE, << >>)

\* close() leaves its wait only on an empty tx_buffer
C8_Wait ==
    (app_pc = "close_spin" /\ app_pc' # "close_spin") => sess.tx_buffer = << >>

\* the CLOSE syscall is injected on an empty tx_buffer; in ESTABLISHED and
\* CLOSE_WAIT all that was sent is then acknowledged, a FIN + ACK follows the
\* last byte and the state becomes FIN_WAIT_1 or LAST_ACK
C8_Inject ==
    (app_pc = "close_inject" /\ app_pc' = "idle") =>
        /\ sess.tx_buffer = << >>
        /\ sess'.tx_buffer = << >>
        /\ sess.state \in {"ESTABLISHED", "CLOSE_WAIT"} =>
                /\ sess.local_seq_ackd = sess.local_seq_sent
                /\ tx_log' = Append(tx_log, FinAck(sess.local_seq_sent, sess.remote_seq_rcvd))
                /\ sess'.state = IF sess.state = "ESTABLISHED" THEN "FIN_WAIT_1" ELSE "LAST_ACK"

\* C8: close() never injects the CLOSE syscall while tx_buffer is non-empty:
\* it blocks until every byte accepted by send() has been acknowledged and
\* drained, then injects CLOSE, upon which a FIN+ACK is emitted and the state
\* becomes FIN_WAIT_1 (from ESTABLISHED) or LAST_ACK (from CLOSE_WAIT); no
\* byte accepted by send() is left unsent in tx_buffer when the FIN goes out.
C8_Close == [][C8_Wait /\ C8_Inject]_vars

\* close() waited for a byte to be sent and acknowledged, then sent the FIN
C8_Drained ==
    /\ app_pc = "idle" /\ app_ret.call = "close"
    /\ sess.state = "FIN_WAIT_1"
    /\ Len(tx_log) = 4
    /\ tx_log[3].raw_data = <<5>>
    /\ tx_log[4] = FinAck(ISS + 2, sess.remote_seq_rcvd)

\* a new session in LISTEN, whatever SYN with ack = 0 and no payload arrives,
\* with seq = s: a SYN + ACK with seq = ISS and ack = s + 1 is emitted and the
\* state becomes SYN_RCVD
C9_Syn ==
    (sess.state = "LISTEN" /\ tx_log = << >>) =>
        \A p \in Packets(ISS) :
            (OnlySyn(p) /\ p.ack = 0 /\ p.raw_data = << >>) =>
                /\ OnPacket(p).o = <<Segment(ISS, p.seq + 1, TRUE, TRUE, FALSE, FALSE, << >>)>>
                /\ OnPacket(p).s.state = "SYN_RCVD"
                /\ OnPacket(p).s.remote_seq_init = p.seq

\* in SYN_RCVD after that one SYN + ACK, whatever ACK with seq = s + 1,
\* ack = ISS + 1 and no payload arrives: ESTABLISHED with local_seq_ackd =
\* local_seq_sent = ISS + 1 and remote_seq_rcvd = s + 1
C9_Ack ==
    (sess.state = "SYN_RCVD" /\ Len(tx_log) = 1) =>
        \A p \in Packets(ISS) :
            (OnlyAck(p) /\ p.seq = sess.remote_seq_init + 1 /\ p.ack = ISS + 1
                /\ p.raw_data = << >>) =>
                /\ OnPacket(p).s.state = "ESTABLISHED"
                /\ OnPacket(p).s.local_seq_ackd = ISS + 1
                /\ OnPacket(p).s.local_seq_sent = ISS + 1
                /\ OnPacket(p).s.remote_seq_rcvd = sess.remote_seq_init + 1
                /\ OnPacket(p).o = tx_log

\* C9: a session in LISTEN that receives a SYN with seq = s, ack = 0 and no
\* payload emits a SYN+ACK with seq = ISS and ack = s+1 and enters SYN_RCVD;
\* when an ACK with seq = s+1, ack = ISS+1 and no payload then arrives the
\* state becomes ESTABLISHED with local_seq_ackd = local_seq_sent = ISS+1 and
\* remote_seq_rcvd = s+1.
C9_PassiveOpen == C9_Syn /\ C9_Ack

\* the passive open went through
C9_Opened ==
    /\ sess.state = "ESTABLISHED"
    /\ tx_log = <<Segment(ISS, sess.remote_seq_init + 1, TRUE, TRUE, FALSE, FALSE, << >>)>>
    /\ sess.local_seq_ackd = ISS + 1 /\ sess.local_seq_sent = ISS + 1
    /\ sess.remote_seq_rcvd = sess.remote_seq_init + 1


\* the delayed ACK timer expires in the next timer iteration
DelayedAckDue == "delayed_ack" \notin DOMAIN timers \/ timers["delayed_ack"] = 1

\* in ESTABLISHED, whatever sane FIN + ACK without payload arrives, with seq =
\* remote_seq_rcvd = q: the handler ends in CLOSE_WAIT with remote_seq_rcvd =
\* q + 1 and the RX signal posted
C10_Fin ==
    sess.state = "ESTABLISHED" =>
        \A p \in Packets(ISS) :
            (OnlyFinAck(p) /\ p.seq = sess.remote_seq_rcvd /\ p.ack <= sess.local_seq_sent
                /\ p.raw_data = << >>) =>
                /\ OnPacket(p).s.state = "CLOSE_WAIT"
                /\ OnPacket(p).s.remote_seq_rcvd = p.seq + 1
                /\ OnPacket(p).s.event_rx_buffer > 0

\* the receive thread's two steps on that FIN + ACK: the first notes q + 1 and
\* posts the RX signal, the second changes the state to CLOSE_WAIT
C10_FinSteps ==
    /\ (fsm_pc = "idle" /\ fsm_pc' = "fin_change_state") =>
            /\ sess.state = "ESTABLISHED"
            /\ sess'.remote_seq_rcvd > sess.remote_seq_rcvd
            /\ sess'.event_rx_buffer > 0
    /\ (fsm_pc = "fin_change_state" /\ fsm_pc' = "idle") =>
            /\ sess'.state = "CLOSE_WAIT"
            /\ sess'.remote_seq_rcvd = sess.remote_seq_rcvd

\* in CLOSE_WAIT whatever is emitted carries ack = q + 1, and the timer
\* iteration in which the delayed ACK timer expires with q + 1 not yet
\* acknowledged emits a segment
C10_Ack ==
    sess.state = "CLOSE_WAIT" =>
        /\ tx_log' # tx_log =>
                \A i \in (Len(tx_log) + 1)..Len(tx_log') :
                    tx_log'[i].flag_ack /\ tx_log'[i].ack = sess.remote_seq_rcvd
        /\ (timers' # timers /\ DelayedAckDue
                /\ sess.remote_seq_rcvd > sess.remote_seq_ackd) =>
                /\ Len(tx_log') > Len(tx_log)
                /\ sess'.remote_seq_ackd = sess.remote_seq_rcvd

\* a receive() that finds CLOSE_WAIT and an empty rx_buffer returns None
C10_Eof ==
    (app_pc = "recv_check" /\ app_pc' # "recv_check"
        /\ sess.state = "CLOSE_WAIT" /\ sess.rx_buffer = << >>) =>
        /\ app_pc' = "idle"
        /\ app_ret'.call = "receive" /\ app_ret'.none

\* close() in CLOSE_WAIT emits FIN + ACK and moves to LAST_ACK
C10_Close ==
    (app_pc = "close_inject" /\ app_pc' = "idle" /\ sess.state = "CLOSE_WAIT") =>
        /\ LastSent(tx_log').flag_fin /\ LastSent(tx_log').flag_ack
        /\ Len(tx_log') = Len(tx_log) + 1
        /\ sess'.state = "LAST_ACK"

\* in LAST_ACK whatever ACK with ack = local_seq_sent arrives closes the
\* session
C10_LastAck ==
    sess.state = "LAST_ACK" =>
        \A p \in Packets(ISS) :
            (OnlyAck(p) /\ p.ack = sess.local_seq_sent) =>
                OnPacket(p).s.state = "CLOSED"

\* C10: in ESTABLISHED a sane FIN+ACK with seq = remote_seq_rcvd = q moves
\* the session to CLOSE_WAIT, an ACK carrying ack = q+1 is (eventually)
\* emitted, and receive() on the empty rx_buffer returns None; a following
\* close() emits FIN+ACK and moves to LAST_ACK, and an ACK with ack =
\* local_seq_sent then moves the session to CLOSED.
C10_PeerClose ==
    /\ [](C10_Fin /\ C10_LastAck)
    /\ [][C10_FinSteps /\ C10_Ack /\ C10_Eof /\ C10_Close]_vars

\* the peer closed first: its FIN was acknowledged with q + 1, close() sent
\* our FIN + ACK, and the ACK of that closed the session
C10_Closed ==
    /\ sess.state = "CLOSED"
    /\ app_pc = "idle" /\ app_ret.call = "close"
    /\ Len(tx_log) = 4
    /\ tx_log[3] = Segment(ISS + 1, sess.remote_seq_init + 2, FALSE, TRUE, FALSE, FALSE, << >>)
    /\ tx_log[4] = FinAck(ISS + 1, sess.remote_seq_init + 2)
    /\ sess.local_seq_fin = ISS + 2


---------------------------------------------------------------------------
(* The reception of data                                                   *)

\* The peer opens the connection (SYN with seq 0, then ACK) and sends data
\* segments, in and out of order; the application listens and receives.
DataSeqValues == 1..4
DataPayloads == {<< >>, <<7, 8>>, <<9>>}

PacketsData(iss) ==
    { Packet("S", 0, 0, << >>, win, mss) : win \in WinValues, mss \in MssValues }
    \cup
    { Packet("A", seq, iss + 1, data, 1, 1) :
        seq \in DataSeqValues, data \in DataPayloads }

DeliverData == \E p \in PacketsData(sess.local_seq_init) : DeliverPacket(p)

NextReceive ==
    \/ AppListen
    \/ DeliverData
    \/ Tick
    \/ \E n \in ByteCounts : AppReceive(n)
    \/ ReceiveAcquire
    \/ ReceiveCheck
    \/ ReceiveRead

SpecReceive == Init /\ [][NextReceive]_vars

\* in ESTABLISHED, whatever data segment with seq = remote_seq_rcvd arrives:
\* its payload goes to the tail of rx_buffer and remote_seq_rcvd advances by
\* its length; a segment with another seq changes nothing
C11_Segment ==
    sess.state = "ESTABLISHED" =>
        \A p \in PacketsData(ISS) :
            OnlyAck(p) =>
                IF p.seq = sess.remote_seq_rcvd
                THEN /\ OnPacket(p).s.rx_buffer = sess.rx_buffer \o p.raw_data
                     /\ OnPacket(p).s.remote_seq_rcvd = sess.remote_seq_rcvd + Len(p.raw_data)
                ELSE /\ OnPacket(p).s.rx_buffer = sess.rx_buffer
                     /\ OnPacket(p).s.remote_seq_rcvd = sess.remote_seq_rcvd

\* ESTABLISHED is entered with an empty rx_buffer and remote_seq_rcvd at the
\* seq of the first data segment (remote_seq_init + 1); from then on every
\* step but the read of receive() and the acceptance of a FIN (which takes a
\* sequence number of its own) keeps what is in rx_buffer at its head and
\* advances remote_seq_rcvd by the number of bytes it adds
C11_Cumulative ==
    /\ (sess.state # "ESTABLISHED" /\ sess'.state = "ESTABLISHED") =>
            /\ sess'.rx_buffer = << >>
            /\ sess'.remote_seq_rcvd = sess'.remote_seq_init + 1
    /\ (sess.state = "ESTABLISHED" /\ sess'.state = "ESTABLISHED"
            /\ app_pc # "recv_read" /\ fsm_pc' # "fin_change_state") =>
            /\ Len(sess'.rx_buffer) >= Len(sess.rx_buffer)
            /\ SubSeq(sess'.rx_buffer, 1, Len(sess.rx_buffer)) = sess.rx_buffer
            /\ sess'.remote_seq_rcvd - sess.remote_seq_rcvd
                   = Len(sess'.rx_buffer) - Len(sess.rx_buffer)

\* a segment emitted in ESTABLISHED carries the cumulative value in its ACK
\* field, and the timer iteration in which the delayed ACK timer expires with
\* data not yet acknowledged emits one
C11_Ack ==
    sess.state = "ESTABLISHED" =>
        /\ tx_log' # tx_log =>
                /\ Len(tx_log') = Len(tx_log) + 1
                /\ LastSent(tx_log').flag_ack
                /\ LastSent(tx_log').ack = sess'.remote_seq_rcvd
        /\ (timers' # timers /\ DelayedAckDue
                /\ sess.remote_seq_rcvd > sess.remote_seq_ackd) =>
                tx_log' # tx_log

\* C11: in ESTABLISHED, for any sequence of accepted data segments (each with
\* seq equal to the current remote_seq_rcvd), rx_buffer / receive() yields the
\* concatenation of their payloads in arrival order, remote_seq_rcvd equals
\* the first segment's seq plus the total payload length, and the ACK field
\* of the next emitted segment equals that cumulative value.
C11_OrderedReceive ==
    /\ []C11_Segment
    /\ [][C11_Cumulative /\ C11_Ack]_vars

\* two segments, <<9>> at seq 1 and <<7, 8>> at seq 2, were acknowledged with
\* ack 4 and read in one receive()
C11_Received ==
    /\ app_pc = "idle" /\ app_ret.call = "receive" /\ app_ret.bytes = <<9, 7, 8>>
    /\ sess.remote_seq_rcvd = 4
    /\ Len(tx_log) = 2
    /\ tx_log[2] = Segment(ISS + 1, 4, FALSE, TRUE, FALSE, FALSE, << >>)

---------------------------------------------------------------------------
(* The session table and the fork of a listening session                   *)

LocalIps == {10}
LocalPorts == {80}
RemoteIps == {1, 2}
RemotePorts == {7}
TableSeqValues == {0}

\* a TcpSession with its addresses; w is what the handlers work on
Object(lip, lport, rip, rport, w) ==
    [ local_ip_address |-> lip, local_port |-> lport,
      remote_ip_address |-> rip, remote_port |-> rport, w |-> w ]

\* "TCP/{local_ip_address}/{local_port}/{remote_ip_address}/{remote_port}"
tcp_session_id(obj) ==
    <<obj.local_ip_address, obj.local_port, obj.remote_ip_address, obj.remote_port>>

\* dict.pop(key) on a key that is present, and dict[key] = value
pop(d, k) == [x \in DOMAIN d \ {k} |-> d[x]]
setitem(d, k, v) == [x \in DOMAIN d \cup {k} |-> IF x = k THEN v ELSE d[x]]

\* a segment as the session sees it, with the addresses it was sent to and from
AddressedPacket(p, lip, lport, rip, rport) ==
    [ flag_syn |-> p.flag_syn, flag_ack |-> p.flag_ack, flag_fin |-> p.flag_fin,
      flag_rst |-> p.flag_rst, seq |-> p.seq, ack |-> p.ack,
      raw_data |-> p.raw_data, win |-> p.win, mss |-> p.mss,
      local_ip_address |-> lip, local_port |-> lport,
      remote_ip_address |-> rip, remote_port |-> rport ]

PacketId(p) == <<p.local_ip_address, p.local_port, p.remote_ip_address, p.remote_port>>

\* the key of the listening entry a segment may be handed to
WildcardId(p) == <<p.local_ip_address, p.local_port, 0, 0>>

\* the segments of the peers: SYN (sane or with a payload), the ACK that ends
\* the handshake, RST
PacketsTable(iss) ==
    { AddressedPacket(q, lip, lport, rip, rport) :
        q \in { Packet("S", seq, 0, data, win, mss) :
                  seq \in TableSeqValues, data \in Payloads,
                  win \in WinValues, mss \in MssValues }
              \cup { Packet("A", seq + 1, iss + 1, << >>, 1, 1) : seq \in TableSeqValues }
              \cup { Packet("R", seq + 1, 0, << >>, 1, 1) : seq \in TableSeqValues },
        lip \in LocalIps, lport \in LocalPorts, rip \in RemoteIps, rport \in RemotePorts }

\* "if packet.ack == 0 and not packet.raw_data" under the test for a lone SYN
listen_accepts(obj, p) ==
    obj.w.s.state = "LISTEN" /\ OnlySyn(p) /\ p.ack = 0 /\ p.raw_data = << >>

\* "tcp_session = TcpSession(...); tcp_session.listen()"
new_listening_session(self, iss) ==
    Object(self.local_ip_address, self.local_port, self.remote_ip_address, self.remote_port,
           tcp_fsm(World(NewSession(iss), << >>, << >>), NoPacket, "LISTEN", FALSE))

\* a fork that does not register the new listening session
listen_fork_unregistered(T, H, ref, p, iss) ==
    LET self == H[ref]
        H1 == Append(H, new_listening_session(self, iss))
        self1 == [self EXCEPT !.local_ip_address = p.local_ip_address,
                              !.local_port = p.local_port,
                              !.remote_ip_address = p.remote_ip_address,
                              !.remote_port = p.remote_port,
                              !.w = tcp_fsm(self.w, p, "NONE", FALSE)]
    IN  [T |-> setitem(pop(T, tcp_session_id(self)), tcp_session_id(self1), ref),
         H |-> [H1 EXCEPT ![ref] = self1]]

\* The sane SYN in LISTEN: the new session is created and made to listen,
\* this session leaves the table, takes the addresses of the packet and enters
\* the table again, the new session is registered; then the handler goes on as
\* tcp_fsm_listen.  pop() of an id that is not in the table raises KeyError,
\* which ends the handler after the state initialization.
listen_fork(T, H, ref, p, iss) ==
    LET self == H[ref]
        tcp_session == new_listening_session(self, iss)
        H1 == Append(H, tcp_session)
        self1 == [self EXCEPT !.local_ip_address = p.local_ip_address,
                              !.local_port = p.local_port,
                              !.remote_ip_address = p.remote_ip_address,
                              !.remote_port = p.remote_port,
                              !.w = tcp_fsm(self.w, p, "NONE", FALSE)]
    IN  IF tcp_session_id(self) \notin DOMAIN T
        THEN [T |-> T, H |-> [H1 EXCEPT ![ref].w = clear_state_init(self.w)]]
        ELSE [T |-> setitem(setitem(pop(T, tcp_session_id(self)),
                                    tcp_session_id(self1), ref),
                            tcp_session_id(tcp_session), Len(H1)),
              H |-> [H1 EXCEPT ![ref] = self1]]

\* tcp_fsm(packet) of the session H[ref], with what it does to the table
tcp_fsm_object(T, H, ref, p, iss) ==
    IF listen_accepts(H[ref], p)
    THEN listen_fork(T, H, ref, p, iss)
    ELSE [T |-> T, H |-> [H EXCEPT ![ref].w = tcp_fsm(@, p, "NONE", FALSE)]]

\* the sessions of the table a segment may be handed to: the one stored under
\* its four addresses, the one listening on its local address and port
Routes(T, p) == { T[k] : k \in {PacketId(p), WildcardId(p)} \cap DOMAIN T }

\* a listening session is in the table under the wildcard id
InitTable ==
    /\ \E iss \in ISSValues :
         /\ sess = NewSession(iss)
         /\ \E lip \in LocalIps, lport \in LocalPorts :
              LET obj == Object(lip, lport, 0, 0,
                                tcp_fsm(World(NewSession(iss), << >>, << >>),
                                        NoPacket, "LISTEN", FALSE))
              IN  /\ heap = <<obj>>
                  /\ tcp_sessions = [k \in {tcp_session_id(obj)} |-> 1]
    /\ timers = << >>
    /\ tx_log = << >>
    /\ fsm_pc = "idle"
    /\ app_pc = "idle"
    /\ app_arg = None
    /\ app_ret = NoRet
    /\ events = 0
    /\ heard = FALSE
    /\ InitLock
    /\ InitTasks
    /\ InitOwed
    /\ InitRace
    /\ InitLink

DeliverTable(p) ==
    /\ Budget
    /\ Count
    /\ \E ref \in Routes(tcp_sessions, p) :
         \E iss \in ISSValues :
            LET r == tcp_fsm_object(tcp_sessions, heap, ref, p, iss)
            IN  tcp_sessions' = r.T /\ heap' = r.H
    /\ UNCHANGED <<session_vars, lock_vars, link_vars, task_vars, ack_vars, race_vars>>

NextTable == \E p \in PacketsTable(sess.local_seq_init) : DeliverTable(p)

SpecTable == InitTable /\ [][NextTable]_vars

TableRefs == { tcp_sessions[k] : k \in DOMAIN tcp_sessions }

IsWildcardId(k) == k[3] = 0 /\ k[4] = 0

\* whatever sane SYN a listening session stored under its wildcard id is
\* handed: afterwards the wildcard id leads to a new session, which listens,
\* and the addresses of the SYN lead to the original session, now SYN_RCVD
C12_Fork ==
    \A k \in DOMAIN tcp_sessions :
      \A p \in PacketsTable(ISS) :
        \A iss \in ISSValues :
          LET ref == tcp_sessions[k]
              r == tcp_fsm_object(tcp_sessions, heap, ref, p, iss)
          IN  (IsWildcardId(k) /\ k = WildcardId(p) /\ listen_accepts(heap[ref], p)) =>
                /\ k \in DOMAIN r.T
                /\ r.T[k] # ref
                /\ r.T[k] \notin DOMAIN heap
                /\ r.H[r.T[k]].w.s.state = "LISTEN"
                /\ PacketId(p) \in DOMAIN r.T
                /\ r.T[PacketId(p)] = ref
                /\ r.H[ref].w.s.state = "SYN_RCVD"

\* every key of the table is the id of the session stored under it
C12_Keys ==
    \A k \in DOMAIN tcp_sessions : tcp_session_id(heap[tcp_sessions[k]]) = k

\* one session of the table listens under a wildcard id
C12_OneListener ==
    Cardinality({ ref \in TableRefs :
                    /\ IsWildcardId(tcp_session_id(heap[ref]))
                    /\ heap[ref].w.s.state = "LISTEN" }) = 1

\* C12: after a LISTEN session keyed on the wildcard (local_ip, local_port, 0,
\* 0) accepts a sane SYN, the session table maps the wildcard key to a new,
\* distinct session in state LISTEN and maps the concrete 4-tuple of the SYN
\* to the original session (now SYN_RCVD); after any number of accepted SYNs
\* every table key equals the id of the session stored under it and exactly
\* one LISTEN session exists for the wildcard key.
C12_ListenFork == C12_Fork /\ C12_Keys /\ C12_OneListener

\* two SYNs were accepted: the first session is stored under the addresses of
\* the first peer, the second under those of the second, the third listens
C12_Forked ==
    /\ Len(heap) = 3
    /\ DOMAIN tcp_sessions = {<<10, 80, 0, 0>>, <<10, 80, 1, 7>>, <<10, 80, 2, 7>>}
    /\ tcp_sessions[<<10, 80, 1, 7>>] = 1
    /\ tcp_sessions[<<10, 80, 2, 7>>] = 2
    /\ tcp_sessions[<<10, 80, 0, 0>>] = 3
    /\ heap[1].w.s.state = "ESTABLISHED"
    /\ heap[2].w.s.state = "SYN_RCVD"
    /\ heap[3].w.s.state = "LISTEN"

---------------------------------------------------------------------------
(* lock_fsm: the three threads that call tcp_fsm of one session            *)

\* what the receive thread hands over: the segments of a handshake in either
\* direction, data and FIN
PacketsLock(iss) ==
    { Packet("S", 0, 0, << >>, win, mss) : win \in WinValues, mss \in MssValues }
    \cup
    { Packet("SA", 0, iss + 1, << >>, win, mss) : win \in WinValues, mss \in MssValues }
    \cup
    { Packet(f, 1, iss + 1, data, 1, 1) : f \in {"A", "FA"}, data \in Payloads }

\* the calls each thread makes: the receive thread tcp_fsm(packet), the
\* application thread listen(), connect() and close(), the timer thread
\* tcp_fsm(timer=True)
ThreadEvents(t, iss) ==
    CASE t = "rx"    -> { Event(p, "NONE", FALSE) : p \in PacketsLock(iss) }
      [] t = "app"   -> { Event(NoPacket, c, FALSE) : c \in {"LISTEN", "CONNECT", "CLOSE"} }
      [] t = "timer" -> { Event(NoPacket, "NONE", TRUE) }

\* what a thread in a handler goes by: the session and what was sent
View(s, o) == [s |-> s, o |-> o]

\* a thread reaches "with self.lock_fsm"; the timer thread has decremented the
\* timers of StackTimer before it calls the task
ThreadCall(t, ev) ==
    /\ Budget
    /\ Count
    /\ thread_pc[t] = "out"
    /\ thread_pc' = [thread_pc EXCEPT ![t] = "acquire"]
    /\ thread_ev' = [thread_ev EXCEPT ![t] = ev]
    /\ timers' = IF ev.timer THEN tick_timers(timers) ELSE timers
    /\ UNCHANGED <<sess, tx_log, fsm_pc, app_pc, app_arg, app_ret, heard,
                   table_vars, task_vars, ack_vars, race_vars, link_vars, lock_fsm, seen>>

\* a lock that any thread gets at any time
lock_free_always(holder) == TRUE

\* threading.Lock.acquire() returns when the lock is free
lock_free(holder) == holder = ""

LockAcquire(t) ==
    /\ thread_pc[t] = "acquire"
    /\ lock_free(lock_fsm)
    /\ lock_fsm' = t
    /\ thread_pc' = [thread_pc EXCEPT ![t] = "in"]
    /\ seen' = [seen EXCEPT ![t] = View(sess, tx_log)]
    /\ UNCHANGED <<session_vars, events, table_vars, task_vars, ack_vars, race_vars, link_vars, thread_ev>>

\* the handler of the current state runs and the lock is released
HandlerRun(t) ==
    /\ thread_pc[t] = "in"
    /\ Commit(tcp_fsm(Cur, thread_ev[t].packet, thread_ev[t].syscall, thread_ev[t].timer))
    /\ lock_fsm' = ""
    /\ thread_pc' = [thread_pc EXCEPT ![t] = "out"]
    /\ UNCHANGED <<fsm_pc, app_pc, app_arg, app_ret, heard, events, table_vars, task_vars, ack_vars, race_vars, link_vars,
                   thread_ev, seen>>

NextLock ==
    \/ \E t \in Threads : \E ev \in ThreadEvents(t, sess.local_seq_init) : ThreadCall(t, ev)
    \/ \E t \in Threads : LockAcquire(t)
    \/ \E t \in Threads : HandlerRun(t)

SpecLock == Init /\ [][NextLock]_vars

InHandler == { t \in Threads : thread_pc[t] = "in" }

\* at most one thread is in a handler, and it holds the lock
C13_Mutex ==
    /\ Cardinality(InHandler) <= 1
    /\ \A t \in InHandler : lock_fsm = t

\* a thread in a handler finds the session as it was when it took the lock
C13_Unobserved ==
    \A t \in InHandler : seen[t] = View(sess, tx_log)

\* every change of the session or emission is the whole handler of the one
\* thread in a handler, which leaves it
C13_Order ==
    (sess' # sess \/ tx_log' # tx_log) =>
        \E t \in Threads :
            /\ InHandler = {t}
            /\ thread_pc'[t] = "out"
            /\ Commit(tcp_fsm(Cur, thread_ev[t].packet, thread_ev[t].syscall,
                              thread_ev[t].timer))

\* C13: at most one thread is executing a per-state FSM handler of a given
\* session at any time, so packet events (RX thread), syscalls (application
\* thread) and timer ticks (tick thread) for the same session are processed
\* in a total order and no handler observes a state change made by another
\* handler midway.
C13_Serialized ==
    /\ [](C13_Mutex /\ C13_Unobserved)
    /\ [][C13_Order]_vars

\* the receive thread is in the ESTABLISHED handler with a FIN while the
\* application thread (close()) and the timer thread wait for the lock
C13_Contended ==
    /\ sess.state = "ESTABLISHED"
    /\ thread_pc = [t \in Threads |-> IF t = "rx" THEN "in" ELSE "acquire"]
    /\ thread_ev["rx"].packet.flag_fin
    /\ thread_ev["app"].syscall = "CLOSE"

---------------------------------------------------------------------------
(* The sequence numbers and the TX buffer                                  *)

\* C14: in every reachable state of every TcpSession (from construction
\* through all FSM states, including after a FIN has been sent),
\* tx_buffer_seq_mod <= local_seq_ackd <= local_seq_sent and offset_sent =
\* local_seq_sent - tx_buffer_seq_mod <= len(tx_buffer), with offset_ackd >= 0.
C14_SeqInvariant ==
    /\ sess.tx_buffer_seq_mod <= sess.local_seq_ackd
    /\ sess.local_seq_ackd <= sess.local_seq_sent
    /\ tx_buffer_seq_sent(sess) <= Len(sess.tx_buffer)
    /\ tx_buffer_seq_ackd(sess) >= 0

\* the session has had its SYN acknowledged
SynAcked == sess.local_seq_ackd > sess.local_seq_init

\* C14 (amended): in every reachable state local_seq_ackd <= local_seq_sent
\* and offset_ackd >= -1; tx_buffer_seq_mod <= local_seq_ackd and offset_ackd
\* >= 0 once the SYN is acknowledged (local_seq_ackd > local_seq_init);
\* offset_sent <= len(tx_buffer) in ESTABLISHED and CLOSE_WAIT, the states
\* after the handshake in which no FIN has been sent.
C14_SeqInvariantAmended ==
    /\ sess.local_seq_ackd <= sess.local_seq_sent
    /\ tx_buffer_seq_ackd(sess) >= -1
    /\ SynAcked => /\ sess.tx_buffer_seq_mod <= sess.local_seq_ackd
                   /\ tx_buffer_seq_ackd(sess) >= 0
    /\ sess.state \in {"ESTABLISHED", "CLOSE_WAIT"} =>
           tx_buffer_seq_sent(sess) <= Len(sess.tx_buffer)

\* one byte was sent and acknowledged, then the FIN was sent: tx_buffer is
\* empty and tx_buffer_seq_mod has followed local_seq_ackd
C14_FinAfterData ==
    /\ sess.state = "FIN_WAIT_1"
    /\ sess.local_seq_ackd = sess.local_seq_init + 2
    /\ sess.tx_buffer_seq_mod = sess.local_seq_ackd
    /\ sess.local_seq_sent = sess.local_seq_fin
    /\ sess.local_seq_fin = sess.local_seq_init + 3
    /\ sess.tx_buffer = << >>

\* the session waits for the answer to a SYN it has not yet sent again
AwaitingFirstResend ==
    \/ sess.state = "SYN_SENT" /\ (sess.state_init \/ sess.syn_sent_resend_count = 0)
    \/ sess.state = "SYN_RCVD" /\ (sess.state_init \/ sess.syn_rcvd_resend_count = 0)

\* The timer thread while the first SYN of a handshake is unanswered: these
\* iterations are not counted, so that the first re-send is reached.
TickAwaiting ==
    /\ AwaitingFirstResend
    /\ TimerThread
    /\ UNCHANGED events

\* the peer refuses the connection
PacketsRst(iss) == { Packet("R", 0, iss + 1, << >>, 1, 1) }

DeliverRst == \E p \in PacketsRst(sess.local_seq_init) : DeliverPacket(p)

\* The application connects, and connects again after a refusal; the peer
\* refuses or stays silent.
NextRetransmit ==
    \/ Tick
    \/ TickAwaiting
    \/ DeliverRst
    \/ AppConnect
    \/ ConnectAcquire
    \/ ConnectReturn

SpecRetransmit == Init /\ [][NextRetransmit]_vars

\* C15: local_seq_sent never decreases across any sequence of FSM events in a
\* session's lifetime, including SYN and SYN+ACK retransmissions that pass an
\* explicit seq = local_seq_ackd.
C15_SeqMonotonic == [][sess'.local_seq_sent >= sess.local_seq_sent]_vars

---------------------------------------------------------------------------
(* The ARP cache                                                           *)

ARP_ENTRY_MAX_AGE == 60
ARP_ENTRY_REFRESH_TIME == 10

\* the seconds the clock may run on while an entry is in the cache
MaxClock == 63

\* the addresses that are learned, and the MAC addresses they are learned with
ArpLearned == {1}
Macs == {21, 22}

\* ArpCache.__Entry: creation_time is kept as the age time.time() -
\* creation_time, which is 0 when the entry is made and grows with the clock
Entry(mac) == [mac_address |-> mac, age |-> 0, hit_count |-> 0]

add_entry(c, ip, mac) == setitem(c, ip, Entry(mac))

\* __send_arp_request with a tx_ring: one more request for hdr_tpa
send_arp_request(tx, tpa) == [tx EXCEPT ![tpa] = @ + 1]

\* a lookup that asks for the address whether or not a tx_ring is bound
find_entry_unguarded(c, tx, ring, ip) ==
    IF ip \in DOMAIN c
    THEN [c |-> [c EXCEPT ![ip].hit_count = @ + 1], tx |-> tx, ret |-> c[ip].mac_address]
    ELSE [c |-> c, tx |-> send_arp_request(tx, ip), ret |-> None]

\* find_entry: the cache, the ring and the returned value afterwards
find_entry(c, tx, ring, ip) ==
    IF ip \in DOMAIN c
    THEN [c |-> [c EXCEPT ![ip].hit_count = @ + 1], tx |-> tx, ret |-> c[ip].mac_address]
    ELSE [c |-> c, tx |-> IF ring THEN send_arp_request(tx, ip) ELSE tx, ret |-> None]

\* "time.time() - creation_time > ARP_ENTRY_MAX_AGE"
expired(e) == e.age > ARP_ENTRY_MAX_AGE

\* "time.time() - creation_time > ARP_ENTRY_MAX_AGE - ARP_ENTRY_REFRESH_TIME
\* and hit_count"
refresh_due(e) == e.age > ARP_ENTRY_MAX_AGE - ARP_ENTRY_REFRESH_TIME /\ e.hit_count # 0

\* The body of the loop of __maintain for one address.  With tx_ring = None the
\* refresh raises AttributeError in __send_arp_request after hit_count is
\* zeroed: the thread ends (dead).
maintain_entry(c, tx, ring, ip) ==
    IF expired(c[ip])
    THEN [c |-> pop(c, ip), tx |-> tx, dead |-> FALSE]
    ELSE IF refresh_due(c[ip])
    THEN [c |-> [c EXCEPT ![ip].hit_count = 0],
          tx |-> IF ring THEN send_arp_request(tx, ip) ELSE tx,
          dead |-> ~ring]
    ELSE [c |-> c, tx |-> tx, dead |-> FALSE]

\* one second passes while the maintenance thread sleeps (or is dead); the
\* sleep of one second is over
ArpClock ==
    /\ maintain_pc \in {"sleep", "dead"}
    /\ \A ip \in DOMAIN arp_cache : arp_cache[ip].age < MaxClock
    /\ arp_cache' = [ip \in DOMAIN arp_cache |-> [arp_cache[ip] EXCEPT !.age = @ + 1]]
    /\ maintain_pc' = IF maintain_pc = "sleep" THEN "wake" ELSE maintain_pc
    /\ UNCHANGED <<arp_tx, arp_tx_ring, scan_todo, find_ret, events,
                   session_vars, table_vars, task_vars, ack_vars, race_vars, lock_vars, ph_vars>>

\* "for ip_address in list(self.arp_cache)"
ArpScanStart ==
    /\ maintain_pc = "wake"
    /\ maintain_pc' = "scan"
    /\ scan_todo' = DOMAIN arp_cache
    /\ UNCHANGED <<arp_cache, arp_tx, arp_tx_ring, find_ret, events,
                   session_vars, table_vars, task_vars, ack_vars, race_vars, lock_vars, ph_vars>>

ArpScanEntry(ip) ==
    /\ maintain_pc = "scan"
    /\ ip \in scan_todo
    /\ LET r == maintain_entry(arp_cache, arp_tx, arp_tx_ring, ip)
       IN  /\ arp_cache' = r.c
           /\ arp_tx' = r.tx
           /\ maintain_pc' = IF r.dead THEN "dead" ELSE "scan"
           /\ scan_todo' = IF r.dead THEN {} ELSE scan_todo \ {ip}
    /\ UNCHANGED <<arp_tx_ring, find_ret, events, session_vars, table_vars, task_vars, ack_vars, race_vars, lock_vars, ph_vars>>

\* "time.sleep(1)"
ArpScanEnd ==
    /\ maintain_pc = "scan"
    /\ scan_todo = {}
    /\ maintain_pc' = "sleep"
    /\ UNCHANGED <<arp_cache, arp_tx, arp_tx_ring, scan_todo, find_ret, events,
                   session_vars, table_vars, task_vars, ack_vars, race_vars, lock_vars, ph_vars>>

\* the packet handler learns an address
ArpAdd(ip, mac) ==
    /\ Budget
    /\ Count
    /\ arp_cache' = add_entry(arp_cache, ip, mac)
    /\ UNCHANGED <<arp_tx, arp_tx_ring, maintain_pc, scan_todo, find_ret,
                   session_vars, table_vars, task_vars, ack_vars, race_vars, lock_vars, ph_vars>>

\* the packet handler looks an address up
ArpFind(ip) ==
    /\ Budget
    /\ Count
    /\ LET r == find_entry(arp_cache, arp_tx, arp_tx_ring, ip)
       IN  /\ arp_cache' = r.c
           /\ arp_tx' = r.tx
           /\ find_ret' = [ip |-> ip, mac |-> r.ret]
    /\ UNCHANGED <<arp_tx_ring, maintain_pc, scan_todo, session_vars, table_vars, task_vars, ack_vars, race_vars, lock_vars, ph_vars>>

InitArpCache ==
    /\ \E iss \in ISSValues : sess = NewSession(iss)
    /\ timers = << >>
    /\ tx_log = << >>
    /\ fsm_pc = "idle"
    /\ app_pc = "idle"
    /\ app_arg = None
    /\ app_ret = NoRet
    /\ events = 0
    /\ heard = FALSE
    /\ tcp_sessions = << >>
    /\ heap = << >>
    /\ InitLock
    /\ InitTasks
    /\ InitOwed
    /\ InitRace
    /\ \E ring \in BOOLEAN : InitArp(ring)
    /\ InitPh

NextArp ==
    \/ ArpClock
    \/ ArpScanStart
    \/ \E ip \in ArpIps : ArpScanEntry(ip)
    \/ ArpScanEnd
    \/ \E ip \in ArpLearned : \E mac \in Macs : ArpAdd(ip, mac)
    \/ \E ip \in ArpIps : ArpFind(ip)

SpecArp == InitArpCache /\ [][NextArp]_vars

\* "time.sleep(1)": the seconds between two scans
ScanPeriod == 1

\* C16: at every instant every entry present in the ARP cache has age now -
\* created_at between 0 and ENTRY_MAX_AGE (60 s) plus one scan period of the
\* aging worker (1 s); no entry older than that is ever returned by find.
C16_Lifetime ==
    /\ \A ip \in DOMAIN arp_cache :
          /\ arp_cache[ip].age >= 0
          /\ arp_cache[ip].age <= ARP_ENTRY_MAX_AGE + ScanPeriod
    /\ \A ip \in ArpIps :
          find_entry(arp_cache, arp_tx, arp_tx_ring, ip).ret # None =>
              arp_cache[ip].age <= ARP_ENTRY_MAX_AGE + ScanPeriod

\* what a find_entry(ip) of a cached ip has to leave behind
C17_Hit(ip) ==
    /\ find_ret' = [ip |-> ip, mac |-> arp_cache[ip].mac_address]
    /\ DOMAIN arp_cache' = DOMAIN arp_cache
    /\ arp_cache'[ip].hit_count = arp_cache[ip].hit_count + 1
    /\ arp_cache'[ip].mac_address = arp_cache[ip].mac_address
    /\ arp_cache'[ip].age = arp_cache[ip].age
    /\ \A q \in DOMAIN arp_cache \ {ip} : arp_cache'[q] = arp_cache[q]
    /\ arp_tx' = arp_tx

\* what a find_entry(ip) of an absent ip has to leave behind
C17_Miss(ip) ==
    /\ find_ret' = [ip |-> ip, mac |-> None]
    /\ arp_cache' = arp_cache
    /\ \A q \in ArpIps :
          arp_tx'[q] = arp_tx[q] + (IF arp_tx_ring /\ q = ip THEN 1 ELSE 0)

\* C17: find(ip) for a cached ip returns the stored MAC, increments that
\* entry's hit counter by exactly 1 and emits nothing; find(ip) for an absent
\* ip returns no MAC, leaves the cache contents unchanged, and enqueues exactly
\* one ARP request for ip on the tx ring iff a tx ring is bound (none
\* otherwise).
C17_Lookup ==
    [][\A ip \in ArpIps :
          ArpFind(ip) => IF ip \in DOMAIN arp_cache THEN C17_Hit(ip) ELSE C17_Miss(ip)]_vars

\* with a tx_ring: address 1 was found twice, with the MAC it was learned
\* with last, and address 2 was asked for once
C17_Looked ==
    /\ arp_tx_ring
    /\ 1 \in DOMAIN arp_cache
    /\ arp_cache[1] = [mac_address |-> 22, age |-> 3, hit_count |-> 2]
    /\ find_ret = [ip |-> 1, mac |-> 22]
    /\ arp_tx = [ip \in ArpIps |-> IF ip = 2 THEN 1 ELSE 0]

\* the entry is in the window in which it is refreshed when used
InRefreshWindow(e) ==
    /\ e.age > ARP_ENTRY_MAX_AGE - ARP_ENTRY_REFRESH_TIME
    /\ e.age <= ARP_ENTRY_MAX_AGE

\* the scan visits an entry in the window: a used one is asked for once and
\* its hit_count zeroed, an unused one is left alone, and nothing else changes
C18_Scan(ip) ==
    IF arp_cache[ip].hit_count > 0
    THEN /\ arp_tx' = [arp_tx EXCEPT ![ip] = @ + 1]
         /\ arp_cache' = [arp_cache EXCEPT ![ip].hit_count = 0]
    ELSE /\ arp_tx' = arp_tx
         /\ arp_cache' = arp_cache

\* a hit_count that leaves 0 does so in a find_entry() of that address
C18_Streak(ip) ==
    (/\ ip \in DOMAIN arp_cache
     /\ ip \in DOMAIN arp_cache'
     /\ arp_cache[ip].hit_count = 0
     /\ arp_cache'[ip].hit_count > 0) => ArpFind(ip)

\* C18: when the aging scan sees an entry with age in (ENTRY_MAX_AGE -
\* REFRESH_TIME, ENTRY_MAX_AGE] and hits > 0 it emits one ARP request for that
\* ip and zeroes hits, and no further refresh request is emitted for that
\* entry until a later find() hit; an entry in the window with hits = 0
\* triggers no request; the refresh itself never changes created_at or removes
\* the entry.
C18_Refresh ==
    [][\A ip \in ArpIps :
          /\ (ArpScanEntry(ip) /\ InRefreshWindow(arp_cache[ip])) => C18_Scan(ip)
          /\ C18_Streak(ip)]_vars

---------------------------------------------------------------------------
(* The packet handler's claim of the stack address                         *)

ARP_CACHE_UPDATE_FROM_DIRECT_REQUEST == TRUE
ARP_CACHE_UPDATE_FROM_GRATUITOUS_REPLY == TRUE

\* "for i in range(3)"
ProbeCount == 3

\* addresses: the stack's, a neighbour's, "0.0.0.0", "ff:ff:ff:ff:ff:ff" and
\* "00:00:00:00:00:00"
StackIp == "10.0.0.9"
StackMac == "02:00:00:00:00:09"
PeerIp == "10.0.0.1"
PeerMac == "02:00:00:00:00:01"
ZeroIp == "0.0.0.0"
BroadcastMac == "ff:ff:ff:ff:ff:ff"
ZeroMac == "00:00:00:00:00:00"

ArpPacket(dst, oper, sha, spa, tha, tpa) ==
    [ether_dst |-> dst, arp_oper |-> oper, arp_sha |-> sha, arp_spa |-> spa,
     arp_tha |-> tha, arp_tpa |-> tpa]

\* phtx_arp: the packet goes out; the second it goes out in is noted with it
phtx_arp(tx, pkt, now) == Append(tx, [pkt |-> pkt, at |-> now])

\* a probe that gives the stack's address as its sender's
ArpProbeAnnouncing == ArpPacket(BroadcastMac, "REQUEST", StackMac, StackIp, ZeroMac, StackIp)

\* __send_arp_probe, __send_arp_announcement, __send_gratitous_arp
ArpProbe == ArpPacket(BroadcastMac, "REQUEST", StackMac, ZeroIp, ZeroMac, StackIp)
ArpAnnouncement == ArpPacket(BroadcastMac, "REQUEST", StackMac, StackIp, ZeroMac, StackIp)
GratuitousArp == ArpPacket(BroadcastMac, "REPLY", StackMac, StackIp, ZeroMac, StackIp)

\* the reply phrx_arp sends to a request for the stack's address
ArpReplyTo(p) == ArpPacket(p.arp_sha, "REPLY", StackMac, StackIp, p.arp_sha, p.arp_spa)

\* the test of phrx_arp for the answer to a probe
IsProbeConflict(p) ==
    /\ p.arp_oper = "REPLY"
    /\ p.ether_dst = StackMac
    /\ p.arp_spa = StackIp
    /\ p.arp_tha = StackMac
    /\ p.arp_tpa = ZeroIp

\* a receive path that takes no answer to a probe for a conflict
phrx_arp_deaf(conflict, tx, c, p, now) ==
    [conflict |-> conflict, tx |-> tx, c |-> c]

\* a receive path that learns from every reply that is no answer to a probe
phrx_arp_any_reply(conflict, tx, c, p, now) ==
    IF p.arp_oper = "REQUEST"
    THEN IF p.arp_tpa = StackIp
         THEN [conflict |-> conflict,
               tx |-> phtx_arp(tx, ArpReplyTo(p), now),
               c |-> add_entry(c, p.arp_spa, p.arp_sha)]
         ELSE [conflict |-> conflict, tx |-> tx, c |-> c]
    ELSE IF IsProbeConflict(p)
         THEN [conflict |-> TRUE, tx |-> tx, c |-> c]
    ELSE [conflict |-> conflict, tx |-> tx, c |-> add_entry(c, p.arp_spa, p.arp_sha)]

\* phrx_arp: the conflict flag, what was sent and the ARP cache afterwards
phrx_arp(conflict, tx, c, p, now) ==
    IF p.arp_oper = "REQUEST"
    THEN IF p.arp_tpa = StackIp
         THEN [conflict |-> conflict,
               tx |-> phtx_arp(tx, ArpReplyTo(p), now),
               c |-> IF ARP_CACHE_UPDATE_FROM_DIRECT_REQUEST
                     THEN add_entry(c, p.arp_spa, p.arp_sha) ELSE c]
         ELSE [conflict |-> conflict, tx |-> tx, c |-> c]
    ELSE IF p.arp_oper # "REPLY"
         THEN [conflict |-> conflict, tx |-> tx, c |-> c]
    ELSE IF IsProbeConflict(p)
         THEN [conflict |-> TRUE, tx |-> tx, c |-> c]
    ELSE IF p.ether_dst = StackMac
         THEN [conflict |-> conflict, tx |-> tx, c |-> add_entry(c, p.arp_spa, p.arp_sha)]
    ELSE IF /\ p.ether_dst = BroadcastMac
            /\ p.arp_spa = p.arp_tpa
            /\ ARP_CACHE_UPDATE_FROM_GRATUITOUS_REPLY
         THEN [conflict |-> conflict, tx |-> tx, c |-> add_entry(c, p.arp_spa, p.arp_sha)]
    ELSE [conflict |-> conflict, tx |-> tx, c |-> c]

\* what the neighbours send: the answer to a probe, an answer that is none
\* (tpa is not 0.0.0.0), a direct reply, a gratuitous reply, requests for the
\* stack's address and for another
ArpPacketsRx ==
    { ArpPacket(StackMac, "REPLY", PeerMac, StackIp, StackMac, ZeroIp),
      ArpPacket(StackMac, "REPLY", PeerMac, StackIp, StackMac, StackIp),
      ArpPacket(StackMac, "REPLY", PeerMac, PeerIp, StackMac, StackIp),
      ArpPacket(BroadcastMac, "REPLY", PeerMac, PeerIp, ZeroMac, PeerIp),
      ArpPacket(BroadcastMac, "REQUEST", PeerMac, PeerIp, ZeroMac, StackIp),
      ArpPacket(BroadcastMac, "REQUEST", PeerMac, PeerIp, ZeroMac, PeerIp) }

PhOthersUnchanged ==
    UNCHANGED <<session_vars, table_vars, task_vars, ack_vars, race_vars, lock_vars, arp_tx, arp_tx_ring,
                maintain_pc, scan_todo, find_ret>>

\* the receive thread hands an ARP packet to phrx_arp
PhRx(p) ==
    /\ Budget
    /\ Count
    /\ LET r == phrx_arp(ph_conflict, ph_tx, arp_cache, p, ph_clock)
       IN  /\ ph_conflict' = r.conflict
           /\ ph_tx' = r.tx
           /\ arp_cache' = r.c
    /\ UNCHANGED <<ph_pc, ph_i, ph_claimed, ph_clock>>
    /\ PhOthersUnchanged

\* "self.__send_arp_probe()"
PhProbe ==
    /\ ph_pc = "probe"
    /\ ph_tx' = phtx_arp(ph_tx, ArpProbe, ph_clock)
    /\ ph_pc' = "sleep"
    /\ UNCHANGED <<ph_i, ph_conflict, ph_claimed, ph_clock, arp_cache, events>>
    /\ PhOthersUnchanged

\* "time.sleep(1)" in the loop
PhSleep ==
    /\ ph_pc = "sleep"
    /\ ph_clock' = ph_clock + 1
    /\ ph_pc' = "check"
    /\ UNCHANGED <<ph_i, ph_conflict, ph_claimed, ph_tx, arp_cache, events>>
    /\ PhOthersUnchanged

\* "if self.arp_probe_conflict_detected: return", else the next iteration or
\* the end of the loop
PhCheck ==
    /\ ph_pc = "check"
    /\ IF ph_conflict
       THEN ph_pc' = "aborted" /\ ph_i' = ph_i
       ELSE IF ph_i + 1 < ProbeCount
       THEN ph_pc' = "probe" /\ ph_i' = ph_i + 1
       ELSE ph_pc' = "announce" /\ ph_i' = ph_i
    /\ UNCHANGED <<ph_conflict, ph_claimed, ph_tx, ph_clock, arp_cache, events>>
    /\ PhOthersUnchanged

\* "self.__send_arp_announcement()"
PhAnnounce ==
    /\ ph_pc = "announce"
    /\ ph_tx' = phtx_arp(ph_tx, ArpAnnouncement, ph_clock)
    /\ ph_pc' = "claim"
    /\ UNCHANGED <<ph_i, ph_conflict, ph_claimed, ph_clock, arp_cache, events>>
    /\ PhOthersUnchanged

\* "self.ip_address_claimed = True"
PhClaim ==
    /\ ph_pc = "claim"
    /\ ph_claimed' = TRUE
    /\ ph_pc' = "sleep_gratuitous"
    /\ UNCHANGED <<ph_i, ph_conflict, ph_tx, ph_clock, arp_cache, events>>
    /\ PhOthersUnchanged

\* "time.sleep(1)" after the claim
PhSleepGratuitous ==
    /\ ph_pc = "sleep_gratuitous"
    /\ ph_clock' = ph_clock + 1
    /\ ph_pc' = "gratuitous"
    /\ UNCHANGED <<ph_i, ph_conflict, ph_claimed, ph_tx, arp_cache, events>>
    /\ PhOthersUnchanged

\* "self.__send_gratitous_arp()"
PhGratuitous ==
    /\ ph_pc = "gratuitous"
    /\ ph_tx' = phtx_arp(ph_tx, GratuitousArp, ph_clock)
    /\ ph_pc' = "done"
    /\ UNCHANGED <<ph_i, ph_conflict, ph_claimed, ph_clock, arp_cache, events>>
    /\ PhOthersUnchanged

NextClaim ==
    \/ \E p \in ArpPacketsRx : PhRx(p)
    \/ PhProbe
    \/ PhSleep
    \/ PhCheck
    \/ PhAnnounce
    \/ PhClaim
    \/ PhSleepGratuitous
    \/ PhGratuitous

SpecClaim == Init /\ [][NextClaim]_vars

\* what the constructor has sent (phrx_arp's replies go to the asker)
ClaimLog == SelectSeq(ph_tx, LAMBDA e : e.pkt.ether_dst = BroadcastMac)

\* three probes, the announcement and the gratuitous reply, a second apart
ClaimPlan ==
    << [pkt |-> ArpPacket(BroadcastMac, "REQUEST", StackMac, ZeroIp, ZeroMac, StackIp), at |-> 0],
       [pkt |-> ArpPacket(BroadcastMac, "REQUEST", StackMac, ZeroIp, ZeroMac, StackIp), at |-> 1],
       [pkt |-> ArpPacket(BroadcastMac, "REQUEST", StackMac, ZeroIp, ZeroMac, StackIp), at |-> 2],
       [pkt |-> ArpPacket(BroadcastMac, "REQUEST", StackMac, StackIp, ZeroMac, StackIp), at |-> 3],
       [pkt |-> ArpPacket(BroadcastMac, "REPLY", StackMac, StackIp, ZeroMac, StackIp), at |-> 4] >>

\* C19: without conflict the handler emits exactly three ARP probes (request,
\* spa = 0.0.0.0, tpa = stack_ip) 1 s apart, then exactly one ARP announcement
\* (request, spa = tpa = stack_ip), then sets ip_address_claimed = true, then
\* after 1 s exactly one gratuitous ARP reply, in that order;
\* ip_address_claimed is false at every point before the announcement has
\* been sent.
C19_Claim ==
    /\ Len(ClaimLog) <= Len(ClaimPlan)
    /\ ClaimLog = SubSeq(ClaimPlan, 1, Len(ClaimLog))
    /\ ph_claimed => Len(ClaimLog) >= 4
    /\ Len(ClaimLog) = 5 => ph_claimed
    /\ ph_pc = "done" => ClaimLog = ClaimPlan /\ ph_claimed
    /\ ph_pc = "aborted" => ph_conflict
    /\ (~ph_conflict /\ ph_pc \in {"announce", "claim", "sleep_gratuitous", "gratuitous"}) =>
           Len(ClaimLog) >= 3

\* the claim has gone through with no conflict, while a neighbour asked for
\* the stack's address and was answered
C19_Claimed ==
    /\ ph_pc = "done"
    /\ ~ph_conflict
    /\ ph_claimed
    /\ ClaimLog = ClaimPlan
    /\ Len(ph_tx) = 6
    /\ ph_clock = 4

\* the constructor is in its loop of probes
ProbePhase == ph_pc \in {"probe", "sleep", "check"}

NoClaimSent ==
    \A k \in 1..Len(ph_tx) :
        ~(/\ ph_tx[k].pkt.ether_dst = BroadcastMac
          /\ ph_tx[k].pkt.arp_spa = StackIp
          /\ ph_tx[k].pkt.arp_tpa = StackIp)

\* an ARP reply to the stack's MAC with tha = stack_mac, spa = stack_ip and
\* tpa = 0.0.0.0 is taken for a conflict
C20_Noticed ==
    \A p \in ArpPacketsRx :
        (/\ p.arp_oper = "REPLY" /\ p.ether_dst = StackMac /\ p.arp_tha = StackMac
         /\ p.arp_spa = StackIp /\ p.arp_tpa = ZeroIp) =>
            phrx_arp(ph_conflict, ph_tx, arp_cache, p, ph_clock).conflict

\* once the conflict flag is up in the loop of probes the address is not
\* claimed and neither announcement nor gratuitous reply has gone out
C20_Latched ==
    (ph_conflict /\ (ProbePhase \/ ph_pc = "aborted")) =>
        ~ph_claimed /\ NoClaimSent

\* the flag stays up, the loop is left only by the return, and after the
\* return the constructor sends nothing
C20_Step ==
    /\ ph_conflict => ph_conflict'
    /\ (ph_conflict /\ ProbePhase) => (ph_pc' \in {"probe", "sleep", "check", "aborted"})
    /\ (ph_conflict /\ ph_pc = "check") => (ph_pc' \in {"check", "aborted"})
    /\ ph_pc = "aborted" =>
          /\ ph_pc' = "aborted"
          /\ SelectSeq(ph_tx', LAMBDA e : e.pkt.ether_dst = BroadcastMac) = ClaimLog

\* C20: if during the probe phase an ARP reply addressed to the stack MAC
\* with tha = stack_mac, spa = stack_ip, tpa = 0.0.0.0 is received, then
\* ip_address_claimed remains false forever, no further probe is sent after
\* the conflict is noticed, and no ARP announcement and no gratuitous ARP reply
\* is ever emitted.
C20_Conflict ==
    /\ [](C20_Noticed /\ C20_Latched)
    /\ [][C20_Step]_vars

\* the answer to the second probe came in, the constructor has returned and
\* a neighbour's request was answered afterwards
C20_Aborted ==
    /\ ph_pc = "aborted"
    /\ ph_conflict
    /\ ~ph_claimed
    /\ Len(ClaimLog) = 2
    /\ Len(ph_tx) = 3
    /\ ph_tx[3].at = 2


---------------------------------------------------------------------------
(* StackTimer on its own: named timers and tasks registered by other       *)
(* threads between two iterations of __thread_timer                        *)

\* iterations of __thread_timer in one run
MaxTicks == 9

\* tasks registered in one run
MaxTasks == 1

TimerNames == {"a", "b"}
TimeoutValues == 0..2
TaskDelays == {1, 2}
RepeatCounts == {-1, 0, 2}

RECURSIVE Pow2(_)
\* 1 << n
Pow2(n) == IF n <= 0 THEN 1 ELSE 2 * Pow2(n - 1)

\* StackTimerTask.__init__; the method of task id notes the iteration it runs in
StackTimerTask(id, delay, delay_exp, repeat_count, stop_condition) ==
    [ method |-> id, delay |-> delay, delay_exp |-> delay_exp,
      repeat_count |-> repeat_count, stop_condition |-> stop_condition,
      remaining_delay |-> delay, delay_exp_factor |-> 0 ]

\* a task that is given its base delay every time
task_rearm_linear(task) == task.delay

\* the delay a task is given after its method ran
task_rearm(task) ==
    IF task.delay_exp THEN task.delay * Pow2(task.delay_exp_factor) ELSE task.delay

\* a tick that tests the stop condition after the countdown
task_tick_stop_late(task, stop) ==
    LET t1 == [task EXCEPT !.remaining_delay = @ - 1]
    IN  IF t1.remaining_delay # 0
        THEN IF task.stop_condition /\ stop
             THEN [task |-> [t1 EXCEPT !.remaining_delay = 0], ran |-> FALSE]
             ELSE [task |-> t1, ran |-> FALSE]
        ELSE IF t1.repeat_count # 0 /\ ~(task.stop_condition /\ stop)
        THEN [task |-> [t1 EXCEPT !.remaining_delay = task_rearm(t1),
                                  !.delay_exp_factor = @ + 1,
                                  !.repeat_count = IF @ > 0 THEN @ - 1 ELSE @],
              ran |-> TRUE]
        ELSE [task |-> t1, ran |-> TRUE]

\* StackTimerTask.tick: the task afterwards and whether the method was called;
\* stop is what stop_condition() returns
task_tick(task, stop) ==
    LET t1 == [task EXCEPT !.remaining_delay = @ - 1]
    IN  IF task.stop_condition /\ stop
        THEN [task |-> [t1 EXCEPT !.remaining_delay = 0], ran |-> FALSE]
        ELSE IF t1.remaining_delay # 0
        THEN [task |-> t1, ran |-> FALSE]
        ELSE IF t1.repeat_count # 0
        THEN [task |-> [t1 EXCEPT !.remaining_delay = task_rearm(t1),
                                  !.delay_exp_factor = @ + 1,
                                  !.repeat_count = IF @ > 0 THEN @ - 1 ELSE @],
              ran |-> TRUE]
        ELSE [task |-> t1, ran |-> TRUE]

\* "for task in self.tasks: task.tick()"
tick_tasks(ts, stop) == [i \in 1..Len(ts) |-> task_tick(ts[i], stop)]

\* "self.tasks = [_ for _ in self.tasks if _.remaining_delay]"
reap_tasks(ts) == SelectSeq(ts, LAMBDA t : t.remaining_delay # 0)

TimerOthersUnchanged ==
    UNCHANGED <<sess, tx_log, fsm_pc, app_pc, app_arg, app_ret, events, heard,
                table_vars, lock_vars, link_vars, ack_vars, race_vars>>

\* one iteration of __thread_timer
TimerIteration ==
    /\ ticks < MaxTicks
    /\ ticks' = ticks + 1
    /\ timers' = tick_timers(timers)
    /\ LET ticked == tick_tasks(tasks, stop_now)
       IN  /\ tasks' = reap_tasks([i \in 1..Len(tasks) |-> ticked[i].task])
           /\ task_log' =
                [id \in 1..Len(task_log) |->
                    IF \E i \in 1..Len(tasks) : tasks[i].method = id /\ ticked[i].ran
                    THEN [task_log[id] EXCEPT !.fires = Append(@, ticks + 1)]
                    ELSE task_log[id]]
    /\ UNCHANGED <<timer_log, stop_now>>
    /\ TimerOthersUnchanged

\* register_timer(name, timeout) called by another thread
RegisterTimer(name, timeout) ==
    /\ timers' = register_timer(timers, name, timeout)
    /\ timer_log' = [n \in (DOMAIN timer_log) \cup {name} |->
                        IF n = name THEN [timeout |-> timeout, at |-> ticks]
                        ELSE timer_log[n]]
    /\ UNCHANGED <<tasks, task_log, ticks, stop_now>>
    /\ TimerOthersUnchanged

\* register_method(method, delay, delay_exp, repeat_count, stop_condition)
RegisterMethod(delay, delay_exp, repeat_count, stop_condition) ==
    /\ Len(task_log) < MaxTasks
    /\ tasks' = Append(tasks, StackTimerTask(Len(task_log) + 1, delay, delay_exp,
                                             repeat_count, stop_condition))
    /\ task_log' = Append(task_log,
                          [delay |-> delay, delay_exp |-> delay_exp,
                           repeat_count |-> repeat_count,
                           stop_condition |-> stop_condition,
                           at |-> ticks, fires |-> << >>])
    /\ UNCHANGED <<timers, timer_log, ticks, stop_now>>
    /\ TimerOthersUnchanged

\* the condition the tasks' stop_condition() tests becomes true
StopCondition ==
    /\ ~stop_now
    /\ stop_now' = TRUE
    /\ UNCHANGED <<timers, tasks, task_log, timer_log, ticks>>
    /\ TimerOthersUnchanged

\* the condition becomes false again
StopConditionOff ==
    /\ stop_now
    /\ stop_now' = FALSE
    /\ UNCHANGED <<timers, tasks, task_log, timer_log, ticks>>
    /\ TimerOthersUnchanged

NextTimer ==
    \/ TimerIteration
    \/ \E name \in TimerNames : \E timeout \in TimeoutValues : RegisterTimer(name, timeout)

SpecTimer == Init /\ [][NextTimer]_vars

NextTask ==
    \/ TimerIteration
    \/ \E d \in TaskDelays : \E e \in BOOLEAN : \E n \in RepeatCounts : \E c \in BOOLEAN :
          RegisterMethod(d, e, n, c)
    \/ StopCondition
    \/ StopConditionOff

SpecTask == Init /\ [][NextTask]_vars

\* C21: for every name and every timeout t (including t = 0), after
\* register_timer(name, t), where only the latest registration counts,
\* timer_expired(name) is true iff no timer with that name exists or its
\* remaining value is <= 0; a timer registered with t >= 1 is reported
\* unexpired until t ticks have elapsed and expired on and after the t-th
\* tick, and a timer whose value reached <= 0 is reaped from the timer map.
C21_Expired ==
    \A name \in TimerNames :
        timer_expired(timers, name) <=> (name \notin DOMAIN timers \/ timers[name] <= 0)

C21_Countdown ==
    \A name \in DOMAIN timer_log :
        timer_log[name].timeout >= 1 =>
            (timer_expired(timers, name) <=>
                ticks - timer_log[name].at >= timer_log[name].timeout)

C21_Reaped ==
    ticks' = ticks + 1 => \A name \in DOMAIN timers' : timers'[name] > 0

C21_NamedTimer ==
    /\ [](C21_Expired /\ C21_Countdown)
    /\ [][C21_Reaped]_vars


\* the iteration in which the k-th run of a task registered as r is due: the
\* first d iterations after the registration, the (k+1)-th d, or d * 2^(k-1)
\* when exponential, after the k-th
RECURSIVE FireTime(_, _)
FireTime(r, k) ==
    IF k = 1 THEN r.at + r.delay
    ELSE FireTime(r, k - 1) + (IF r.delay_exp THEN r.delay * 2 ^ (k - 2) ELSE r.delay)

\* the runs of r that are due by now
FiresDue(r) ==
    { k \in 1..(MaxTicks + 1) :
        /\ r.repeat_count = -1 \/ k <= r.repeat_count + 1
        /\ FireTime(r, k) <= ticks }

InTaskList(id) == \E i \in 1..Len(tasks) : tasks[i].method = id

\* C22: a task registered with base delay d >= 1 and repeat count n >= 0 (no
\* stop condition) fires exactly n+1 times and is then removed from the task
\* list; with repeat = -1 it fires forever and is never removed.  The first
\* fire is d ticks after registration; the gap before the (k+1)-th fire is d
\* when not exponential and d * 2^(k-1) when exponential.
C22_Schedule ==
    \A id \in 1..Len(task_log) :
        LET r == task_log[id]
        IN  ~r.stop_condition =>
              /\ r.fires = [k \in 1..Cardinality(FiresDue(r)) |-> FireTime(r, k)]
              /\ r.repeat_count >= 0 => Len(r.fires) <= r.repeat_count + 1
              /\ InTaskList(id) <=>
                    (r.repeat_count = -1 \/ Len(r.fires) < r.repeat_count + 1)

\* a task of delay 2, exponential, repeated twice has run after 2, 4 and 8
\* iterations and is gone
C22_Fired ==
    \E id \in 1..Len(task_log) :
        /\ task_log[id].delay = 2 /\ task_log[id].delay_exp
        /\ task_log[id].repeat_count = 2 /\ ~task_log[id].stop_condition
        /\ task_log[id].fires = << task_log[id].at + 2, task_log[id].at + 4,
                                   task_log[id].at + 8 >>
        /\ ~InTaskList(id)
        /\ tasks = << >>


---------------------------------------------------------------------------
(* The per-state transitions                                               *)

States ==
    { "CLOSED", "LISTEN", "SYN_SENT", "SYN_RCVD", "ESTABLISHED", "FIN_WAIT_1",
      "FIN_WAIT_2", "CLOSING", "CLOSE_WAIT", "LAST_ACK", "TIME_WAIT" }

\* the rows of the per-state transitions table that change the state, as
\* <<From, input, To>>; "give-up" is the expiry of the resend timer after
\* PACKET_RESEND_COUNT re-sends, "timeout" that of the time_wait timer
TransitionTable ==
    { <<"CLOSED", "CONNECT", "SYN_SENT">>,
      <<"CLOSED", "LISTEN", "LISTEN">>,
      <<"LISTEN", "SYN", "SYN_RCVD">>,
      <<"LISTEN", "CLOSE", "CLOSED">>,
      <<"SYN_SENT", "SYN+ACK", "ESTABLISHED">>,
      <<"SYN_SENT", "SYN", "SYN_RCVD">>,
      <<"SYN_SENT", "RST", "CLOSED">>,
      <<"SYN_SENT", "give-up", "CLOSED">>,
      <<"SYN_RCVD", "ACK", "ESTABLISHED">>,
      <<"SYN_RCVD", "give-up", "CLOSED">>,
      <<"SYN_RCVD", "CLOSE", "FIN_WAIT_1">>,
      <<"ESTABLISHED", "FIN+ACK", "CLOSE_WAIT">>,
      <<"ESTABLISHED", "CLOSE", "FIN_WAIT_1">>,
      <<"FIN_WAIT_1", "ACK", "FIN_WAIT_2">>,
      <<"FIN_WAIT_1", "FIN+ACK", "TIME_WAIT">>,
      <<"FIN_WAIT_1", "FIN+ACK", "CLOSING">>,
      <<"FIN_WAIT_2", "FIN+ACK", "TIME_WAIT">>,
      <<"CLOSING", "ACK", "TIME_WAIT">>,
      <<"CLOSE_WAIT", "CLOSE", "LAST_ACK">>,
      <<"CLOSE_WAIT", "RST", "CLOSED">>,
      <<"LAST_ACK", "ACK", "CLOSED">>,
      <<"LAST_ACK", "RST", "CLOSED">>,
      <<"TIME_WAIT", "timeout", "CLOSED">> }

\* the table with the row of the SYN_SENT handler's last branch
TransitionTableAmended == TransitionTable \cup { <<"SYN_SENT", "CLOSE", "CLOSED">> }

\* what a segment is by its flags
PacketKind(p) ==
    IF p.flag_rst THEN "RST"
    ELSE IF p.flag_syn /\ p.flag_ack THEN "SYN+ACK"
    ELSE IF p.flag_fin /\ p.flag_ack THEN "FIN+ACK"
    ELSE IF p.flag_syn THEN "SYN"
    ELSE "ACK"

\* what a timer iteration is to the session
TimerKind ==
    IF sess.state = "TIME_WAIT" /\ timer_expired(tick_timers(timers), "time_wait")
    THEN "timeout"
    ELSE IF \/ /\ sess.state = "SYN_SENT"
               /\ timer_expired(tick_timers(timers), "syn_sent")
               /\ sess.syn_sent_resend_count = PACKET_RESEND_COUNT
            \/ /\ sess.state = "SYN_RCVD"
               /\ timer_expired(tick_timers(timers), "syn_rcvd")
               /\ sess.syn_rcvd_resend_count = PACKET_RESEND_COUNT
    THEN "give-up"
    ELSE "timer"

\* every input of tcp_fsm in the current state moves the session along a row
\* of table
ClosedUnder(table) ==
    /\ \A p \in Packets(ISS) :
          LET to == OnPacket(p).s.state
          IN  to # sess.state => <<sess.state, PacketKind(p), to>> \in table
    /\ \A syscall \in {"LISTEN", "CONNECT", "CLOSE"} :
          LET to == tcp_fsm(Cur, NoPacket, syscall, FALSE).s.state
          IN  to # sess.state => <<sess.state, syscall, to>> \in table
    /\ LET to == timer_iteration(Cur).s.state
       IN  to # sess.state => <<sess.state, TimerKind, to>> \in table

\* every step of the session is along a row of table
StepUnder(table) ==
    sess'.state # sess.state =>
        \E row \in table : row[1] = sess.state /\ row[3] = sess'.state

\* C23: every change of a session's state is a (From, To) pair of the
\* per-state transitions table caused by the input of that row (no state other
\* than those listed reacts to syscall CLOSE, and CLOSED is reached only from
\* LISTEN/CLOSE, SYN_SENT/RST or handshake give-up, CLOSE_WAIT/RST,
\* LAST_ACK/ACK-or-RST, and TIME_WAIT timeout); the state is always one of the
\* 11 states and starts as CLOSED.
C23_TableClosure ==
    /\ [](sess.state \in States /\ ClosedUnder(TransitionTable))
    /\ [][StepUnder(TransitionTable)]_vars
    /\ \A iss \in ISSValues : NewSession(iss).state = "CLOSED"

\* C23 with the table that has the row SYN_SENT, syscall CLOSE, CLOSED
C23_TableClosureAmended ==
    /\ [](sess.state \in States /\ ClosedUnder(TransitionTableAmended))
    /\ [][StepUnder(TransitionTableAmended)]_vars
    /\ \A iss \in ISSValues : NewSession(iss).state = "CLOSED"

\* a session in SYN_SENT that the CLOSE syscall would move to CLOSED
C23_SynSentClose ==
    /\ sess.state = "SYN_SENT"
    /\ tcp_fsm(Cur, NoPacket, "CLOSE", FALSE).s.state = "CLOSED"
    /\ Len(tx_log) = 1


\* C24: a session in SYN_SENT that receives a segment with only the SYN flag
\* set (ack = 0, no payload) emits a SYN+ACK and transitions to SYN_RCVD.
C24_SimultaneousOpen ==
    sess.state = "SYN_SENT" =>
        \A p \in Packets(ISS) :
            (/\ p.flag_syn /\ ~p.flag_ack /\ ~p.flag_fin /\ ~p.flag_rst
             /\ p.ack = 0 /\ p.raw_data = << >>) =>
                LET r == OnPacket(p)
                IN  /\ r.s.state = "SYN_RCVD"
                    /\ Len(r.o) = Len(tx_log) + 1
                    /\ LastSent(r.o).flag_syn /\ LastSent(r.o).flag_ack


\* __send_packet called with the explicit sequence number seq
C25_Explicit ==
    \A seq \in {0, 1, ISS, ISS + 1} : \A syn \in BOOLEAN : \A fin \in BOOLEAN :
        \A data \in Payloads :
            LET r == send_packet(Cur, seq, syn, TRUE, fin, FALSE, data)
            IN  /\ LastSent(r.o).seq = seq
                /\ r.s.local_seq_sent = seq + Len(data) + b2i(syn) + b2i(fin)
                /\ r.s.remote_seq_ackd = sess.remote_seq_rcvd
                /\ fin => r.s.local_seq_fin = r.s.local_seq_sent

\* __send_packet called with no sequence number
C25_Implicit ==
    \A syn \in BOOLEAN : \A fin \in BOOLEAN : \A data \in Payloads :
        LET r == send_packet(Cur, None, syn, TRUE, fin, FALSE, data)
        IN  /\ LastSent(r.o).seq = sess.local_seq_sent
            /\ r.s.local_seq_sent = sess.local_seq_sent + Len(data) + b2i(syn) + b2i(fin)
            /\ r.s.remote_seq_ackd = sess.remote_seq_rcvd
            /\ fin => r.s.local_seq_fin = r.s.local_seq_sent

\* the SYN and its retransmissions on the first handshake of a session
C25_SynResend ==
    (sess.state = "SYN_SENT" /\ ~heard) =>
        /\ sess.local_seq_ackd = ISS
        /\ sess.local_seq_sent = ISS + 1
        /\ \A k \in 1..Len(tx_log) : tx_log[k].flag_syn /\ tx_log[k].seq = ISS

\* C25: send_packet with an explicit seq = s emits the segment with sequence
\* number exactly s for every s (including s = 0) and sets local_seq_sent to
\* s + len(data) + (1 if syn) + (1 if fin), and with no seq uses
\* local_seq_sent; every SYN retransmission in SYN_SENT carries seq =
\* local_seq_ackd = ISS and leaves local_seq_sent = ISS + 1 for every ISS,
\* including ISS = 0.  It also sets remote_seq_ackd to remote_seq_rcvd and,
\* when fin, local_seq_fin to the new local_seq_sent.
C25_SendAccounting == C25_Explicit /\ C25_Implicit /\ C25_SynResend


---------------------------------------------------------------------------
(* Sessions whose sequence numbers are about to wrap                       *)

\* The largest sequence number, 0xFFFFFFFF in random.randint(0, 0xFFFFFFFF)
\* and in the 32-bit fields of a segment, scaled to four bits: the integers
\* of the model stop at 2^31 - 1.  The session's own arithmetic is Python's,
\* on unbounded integers.
SeqMax == 15

\* what the peer, whose arithmetic is modulo SeqMax + 1, puts in a field
Wrap(x) == x % (SeqMax + 1)

ISSValuesWrap == {SeqMax - 1, SeqMax}

\* the segments of a peer that answers the session's SYN from its own ISS 0
\* or SeqMax and acknowledges the session's first and second sequence number
PacketsWrap(iss) ==
    { Packet("SA", seq, Wrap(iss + 1), << >>, win, mss) :
        seq \in {0, SeqMax}, win \in WinValues, mss \in MssValues }
    \cup
    { Packet(f, seq, Wrap(iss + k), << >>, 1, 1) :
        f \in {"A", "FA"}, seq \in {0, 1}, k \in {1, 2} }

InitWrap == \E iss \in ISSValuesWrap : InitSession(iss)

DeliverWrap == \E p \in PacketsWrap(sess.local_seq_init) : DeliverPacket(p)

NextWrap ==
    \/ Tick
    \/ DeliverWrap
    \/ FinChangeState
    \/ AppConnect
    \/ ConnectAcquire
    \/ ConnectReturn
    \/ \E d \in SendData : AppSend(d)
    \/ AppClose
    \/ CloseSpinExit
    \/ CloseInject

SpecWrap == InitWrap /\ [][NextWrap]_vars

InSeqSpace(x) == x \in 0..SeqMax

\* C26: all sequence variables (local_seq_sent, local_seq_ackd,
\* local_seq_fin, remote_seq_rcvd, tx_buffer_seq_mod) and the seq/ack fields
\* of emitted segments stay within 0..2^32-1 (arithmetic modulo 2^32), and
\* every seq/ack comparison is wrap-safe, so a session whose ISS (or whose
\* peer's sequence) is within a few bytes of 2^32-1 still completes the
\* handshake, accepts ACKs whose value has wrapped past 0, drains tx_buffer
\* and closes exactly like a session with a small ISS.
C26_WrapSafe ==
    /\ InSeqSpace(sess.local_seq_sent)
    /\ InSeqSpace(sess.local_seq_ackd)
    /\ InSeqSpace(sess.tx_buffer_seq_mod)
    /\ sess.local_seq_fin # None => InSeqSpace(sess.local_seq_fin)
    /\ sess.remote_seq_rcvd # None => InSeqSpace(sess.remote_seq_rcvd)
    /\ \A k \in 1..Len(tx_log) : InSeqSpace(tx_log[k].seq) /\ InSeqSpace(tx_log[k].ack)
    /\ sess.state = "SYN_SENT" =>
          \A p \in PacketsWrap(ISS) :
              (OnlySynAck(p) /\ p.ack = Wrap(sess.local_seq_sent)) =>
                  OnPacket(p).s.state = "ESTABLISHED"
    /\ sess.state = "ESTABLISHED" =>
          \A p \in PacketsWrap(ISS) :
              (OnlyAck(p) /\ p.seq = Wrap(sess.remote_seq_rcvd)
                          /\ p.ack = Wrap(sess.local_seq_sent)) =>
                  OnPacket(p).s.tx_buffer = << >>


---------------------------------------------------------------------------
(* The sender: the application connects and sends, the peer acknowledges   *)

SendDataWindow == {<<5, 6, 7>>, <<8>>}
SendWinValues == {0, 1, 3}
SendMssValues == {1, 2}

\* the peer answers the SYN from its ISS 0 with a window and an MSS, then
\* acknowledges what it was sent, or more, and closes
PacketsSend(iss) ==
    { Packet("SA", 0, iss + 1, << >>, win, mss) :
        win \in SendWinValues, mss \in SendMssValues }
    \cup
    { Packet(f, 1, iss + k, << >>, 1, 1) : f \in {"A", "FA"}, k \in 1..5 }

DeliverSend == \E p \in PacketsSend(sess.local_seq_init) : DeliverPacket(p)

NextSend ==
    \/ Tick
    \/ DeliverSend
    \/ FinChangeState
    \/ AppConnect
    \/ ConnectAcquire
    \/ ConnectReturn
    \/ \E d \in SendDataWindow : AppSend(d)
    \/ AppClose
    \/ CloseSpinExit
    \/ CloseInject

SpecSend == Init /\ [][NextSend]_vars

Sending == sess.state \in {"ESTABLISHED", "CLOSE_WAIT"} /\ fsm_pc = "idle"

\* what __send_data does in the current state
C27_SendData ==
    Sending =>
        LET unsent   == Len(sess.tx_buffer) - (sess.local_seq_sent - sess.tx_buffer_seq_mod)
            win_left == (sess.local_seq_ackd - sess.tx_buffer_seq_mod) + sess.remote_win
                        - (sess.local_seq_sent - sess.tx_buffer_seq_mod)
            n        == Min(sess.remote_mss, Min(win_left, unsent))
            first    == sess.local_seq_sent - sess.tx_buffer_seq_mod
            r        == send_data(Cur)
        IN  IF unsent = 0 \/ win_left <= 0
            THEN r.o = tx_log /\ r.s.local_seq_sent = sess.local_seq_sent
            ELSE /\ Len(r.o) = Len(tx_log) + 1
                 /\ SubSeq(r.o, 1, Len(tx_log)) = tx_log
                 /\ LastSent(r.o).flag_ack
                 /\ ~LastSent(r.o).flag_syn /\ ~LastSent(r.o).flag_fin /\ ~LastSent(r.o).flag_rst
                 /\ LastSent(r.o).seq = sess.local_seq_sent
                 /\ n >= 1
                 /\ LastSent(r.o).raw_data = SubSeq(sess.tx_buffer, first + 1, first + n)
                 /\ r.s.local_seq_sent = sess.local_seq_sent + n

\* the timer iteration sends what __send_data sends, before anything else
C27_Tick ==
    Sending =>
        LET r == send_data(Cur)
            t == timer_iteration(Cur)
        IN  /\ Len(t.o) >= Len(r.o)
            /\ SubSeq(t.o, 1, Len(r.o)) = r.o

\* the data bytes in flight fit in the peer's window
C27_Window ==
    Sending =>
        /\ sess.local_seq_sent - sess.local_seq_ackd <= Max(sess.remote_win, 0)
        /\ sess.local_seq_sent - sess.local_seq_ackd >= 0

\* the data segments sent so far, in the order they were sent
DataSegments == SelectSeq(tx_log, LAMBDA g : g.raw_data # << >>)

\* the sequence number after the session's latest SYN or SYN + ACK
FirstDataSeq ==
    LET syns == SelectSeq(tx_log, LAMBDA g : g.flag_syn)
    IN  syns[Len(syns)].seq + 1

\* the segments follow one another from the first sequence number after the
\* SYN to local_seq_sent, and what is not yet dropped from tx_buffer was sent
\* from its place in tx_buffer
C27_Stream ==
    Sending =>
        /\ \A k \in 1..Len(DataSegments) :
              /\ DataSegments[k].seq =
                    IF k = 1 THEN FirstDataSeq
                    ELSE DataSegments[k - 1].seq + Len(DataSegments[k - 1].raw_data)
              /\ \A i \in 1..Len(DataSegments[k].raw_data) :
                    LET a == DataSegments[k].seq + i - 1
                    IN  a >= sess.tx_buffer_seq_mod =>
                            sess.tx_buffer[a - sess.tx_buffer_seq_mod + 1] =
                                DataSegments[k].raw_data[i]
        /\ sess.local_seq_sent =
              IF DataSegments = << >> THEN FirstDataSeq
              ELSE DataSegments[Len(DataSegments)].seq
                   + Len(DataSegments[Len(DataSegments)].raw_data)

\* C27: on each timer tick in ESTABLISHED or CLOSE_WAIT, send_data transmits
\* nothing when unsent = len(tx_buffer) - offset_sent is 0 or win_left =
\* offset_ackd + remote_win - offset_sent is <= 0, and otherwise transmits
\* exactly one ACK-flagged segment holding the min(remote_mss, win_left,
\* unsent) bytes of tx_buffer starting at offset_sent and advances
\* local_seq_sent by that length; consequently the number of unacknowledged
\* data bytes in flight (local_seq_sent - local_seq_ackd) never exceeds
\* remote_win and bytes are transmitted in tx_buffer order without gaps or
\* repeats.
C27_SlidingWindow == C27_SendData /\ C27_Tick /\ C27_Window /\ C27_Stream

\* two segments are out, of two bytes (the MSS) and of one (what was left
\* unsent); a fourth byte waits in tx_buffer for the window, which is full
C27_Sent ==
    /\ sess.state = "ESTABLISHED"
    /\ sess.remote_win = 3 /\ sess.remote_mss = 2
    /\ Len(DataSegments) = 2
    /\ DataSegments[1].raw_data = <<5, 6>>
    /\ DataSegments[2].raw_data = <<7>>
    /\ sess.tx_buffer = <<5, 6, 7, 8>>
    /\ sess.local_seq_sent - sess.local_seq_ackd = 3
    /\ send_data(Cur).o = tx_log

(***************************************************************************)
(* Draining of acknowledged data (__process_ack_packet)                    *)
(***************************************************************************)

\* the states whose handlers pass a sane ACK to __process_ack_packet
AckStates == {"ESTABLISHED", "FIN_WAIT_1", "FIN_WAIT_2", "CLOSE_WAIT"}

AckProcessed(p) ==
    /\ fsm_pc = "idle"
    /\ sess.state \in AckStates
    /\ OnlyAck(p)
    /\ Sane(sess, p)
    /\ (sess.state = "CLOSE_WAIT" => p.raw_data = << >>)

\* the absolute sequence number of the i-th byte of a session's tx_buffer
AbsSeq(s, i) == s.tx_buffer_seq_mod + i - 1

\* the bytes of tx_buffer with absolute sequence number from seq on
BytesFrom(s, seq) ==
    LET first == Max(seq - s.tx_buffer_seq_mod, 0) + 1
    IN  SubSeq(s.tx_buffer, first, Len(s.tx_buffer))

\* what the handler leaves of the session after the ACK p
C28_After(p) == OnPacket(p).s

OpenStates == {"ESTABLISHED", "CLOSE_WAIT"}

\* the session has received more than it has acknowledged
Owed(s) == s.state \in OpenStates /\ s.remote_seq_rcvd > s.remote_seq_ackd

\* the peer answers the SYN, sends two bytes one at a time and closes
PacketsAck(iss) ==
    { Packet("SA", 0, iss + 1, << >>, 1, 1) }
    \cup
    { Packet("A", seq, iss + 1, <<9>>, 1, 1) : seq \in 1..2 }
    \cup
    { Packet("FA", seq, iss + 1, << >>, 1, 1) : seq \in 1..2 }

DeliverAck == \E p \in PacketsAck(sess.local_seq_init) : DeliverPacket(p)

\* The timer thread.  Its iterations while an acknowledgement is owed are not
\* counted as events, so that the delayed ACK timer runs its full course;
\* ack_owed counts the iterations that began and ended with an
\* acknowledgement owed.
TickOwed ==
    /\ Owed(sess) \/ Budget
    /\ events' = IF Owed(sess) THEN events ELSE events + 1
    /\ ack_owed <= DELAYED_ACK_DELAY
    /\ fsm_pc = "idle"
    /\ Commit(timer_iteration(Cur))
    /\ ack_owed' = IF Owed(sess) /\ Owed(sess') THEN ack_owed + 1 ELSE 0
    /\ UNCHANGED <<fsm_pc, heard, table_vars, lock_vars, link_vars, task_vars, tw_elapsed, race_vars>>
    /\ AppVarsUnchanged

NextAck ==
    \/ TickOwed
    \/ DeliverAck
    \/ FinChangeState
    \/ AppConnect
    \/ ConnectAcquire
    \/ ConnectReturn
    \/ \E d \in SendData : AppSend(d)

SpecAck == Init /\ [][NextAck]_vars

\* a segment with the ACK flag only and no data
BareAck(g) ==
    g.flag_ack /\ ~g.flag_syn /\ ~g.flag_fin /\ ~g.flag_rst /\ g.raw_data = << >>

\* an acknowledgement is never owed for DELAYED_ACK_DELAY iterations
C29_Within == Owed(sess) => ack_owed < DELAYED_ACK_DELAY

\* the timer iteration in the current state: with the timer expired and an
\* acknowledgement owed it sends a segment that acknowledges remote_seq_rcvd,
\* otherwise it sends no bare ACK
C29_Tick ==
    (sess.state \in OpenStates /\ fsm_pc = "idle") =>
        LET r    == timer_iteration(Cur)
            new  == SubSeq(r.o, Len(tx_log) + 1, Len(r.o))
            due  == timer_expired(tick_timers(timers), "delayed_ack")
            owed == sess.remote_seq_rcvd > sess.remote_seq_ackd
        IN  /\ (due /\ owed) =>
                  /\ new # << >>
                  /\ LastSent(r.o).flag_ack
                  /\ LastSent(r.o).ack = sess.remote_seq_rcvd
                  /\ r.s.remote_seq_rcvd = sess.remote_seq_rcvd
                  /\ r.s.remote_seq_ackd = r.s.remote_seq_rcvd
            /\ (~due \/ ~owed) => \A i \in 1..Len(new) : ~BareAck(new[i])

\* what is owed stays owed until a segment that acknowledges remote_seq_rcvd
\* is sent
C29_Cleared ==
    (Owed(sess) /\ sess'.state \in OpenStates /\ ~Owed(sess')) =>
        /\ Len(tx_log') > Len(tx_log)
        /\ LastSent(tx_log').flag_ack
        /\ LastSent(tx_log').ack = sess'.remote_seq_rcvd
        /\ sess'.remote_seq_ackd = sess'.remote_seq_rcvd

\* C29: delayed ACK: in ESTABLISHED and CLOSE_WAIT, whenever remote_seq_rcvd >
\* remote_seq_ackd a segment whose ACK field equals remote_seq_rcvd is emitted
\* within DELAYED_ACK_DELAY (200) timer ticks, after which remote_seq_ackd =
\* remote_seq_rcvd; on a tick where the delayed_ack timer has not expired, or
\* where remote_seq_rcvd = remote_seq_ackd, no bare ACK is emitted.
C29_DelayedAck == [](C29_Within /\ C29_Tick) /\ [][C29_Cleared]_vars

\* the peer's byte came right after the timer was set: the acknowledgement
\* has been owed for 199 iterations and the 200th sends it, a bare ACK
C29_Waited ==
    /\ Owed(sess)
    /\ fsm_pc = "idle"
    /\ ack_owed = DELAYED_ACK_DELAY - 1
    /\ LET r == timer_iteration(Cur)
       IN  /\ Len(r.o) = Len(tx_log) + 1
           /\ BareAck(LastSent(r.o))
           /\ LastSent(r.o).ack = sess.remote_seq_rcvd

(***************************************************************************)
(* The active close (FIN_WAIT_1, CLOSING)                                  *)
(***************************************************************************)

\* in FIN_WAIT_1, what the handler does with each sane ACK and FIN + ACK
C30_FinWait1 ==
    (sess.state = "FIN_WAIT_1" /\ fsm_pc = "idle") =>
        \A p \in Packets(ISS) :
            LET r == OnPacket(p)
            IN  /\ (OnlyAck(p) /\ Sane(sess, p)) =>
                      r.s.state = IF p.ack >= sess.local_seq_fin
                                  THEN "FIN_WAIT_2" ELSE "FIN_WAIT_1"
                /\ (OnlyFinAck(p) /\ Sane(sess, p)) =>
                      /\ Len(r.o) = Len(tx_log) + 1
                      /\ SubSeq(r.o, 1, Len(tx_log)) = tx_log
                      /\ BareAck(LastSent(r.o))
                      /\ LastSent(r.o).ack = p.seq + Len(p.raw_data) + 1
                      /\ r.s.state = IF p.ack >= sess.local_seq_fin
                                     THEN "TIME_WAIT" ELSE "CLOSING"

\* in CLOSING, the inputs that lead on are the ACKs with ack = local_seq_sent,
\* and they lead to TIME_WAIT
C30_Closing ==
    (sess.state = "CLOSING" /\ fsm_pc = "idle") =>
        /\ \A p \in Packets(ISS) :
              OnPacket(p).s.state = IF OnlyAck(p) /\ p.ack = sess.local_seq_sent
                                    THEN "TIME_WAIT" ELSE "CLOSING"
        /\ \A syscall \in {"LISTEN", "CONNECT", "CLOSE"} :
              tcp_fsm(Cur, NoPacket, syscall, FALSE).s.state = "CLOSING"
        /\ timer_iteration(Cur).s.state = "CLOSING"

\* C30: FIN_WAIT_1 branching: in FIN_WAIT_1 a sane ACK moves the session to
\* FIN_WAIT_2 iff it acknowledges our FIN (ack >= local_seq_fin) and otherwise
\* leaves it in FIN_WAIT_1; a sane FIN+ACK causes a final ACK with ack = peer
\* FIN seq + 1 to be emitted and moves the session to TIME_WAIT iff it
\* acknowledges our FIN and to CLOSING otherwise; from CLOSING only an ACK
\* with ack = local_seq_sent leads to TIME_WAIT.
C30_ActiveClose == C30_FinWait1 /\ C30_Closing

\* both sides closed at once: the peer's FIN + ACK did not acknowledge our
\* FIN, the final ACK is out and the session is in CLOSING
C30_BothClosed ==
    /\ sess.state = "CLOSING"
    /\ sess.local_seq_ackd < sess.local_seq_fin
    /\ BareAck(LastSent(tx_log))
    /\ LastSent(tx_log).ack = sess.remote_seq_rcvd

(***************************************************************************)
(* TIME_WAIT (__tcp_fsm_time_wait)                                         *)
(***************************************************************************)

\* the peer opens, closes at the same time as the session (its FIN + ACK does
\* not acknowledge the session's FIN, its ACK does), and sends an RST
PacketsTimeWait(iss) ==
    { Packet("S", 0, 0, << >>, 1, 1),
      Packet("FA", 1, iss + 1, << >>, 1, 1),
      Packet("A", 2, iss + 2, << >>, 1, 1),
      Packet("R", 2, 0, << >>, 1, 1) }

\* the receive thread before the session is in TIME_WAIT
DeliverTimeWait ==
    /\ sess.state # "TIME_WAIT"
    /\ \E p \in PacketsTimeWait(sess.local_seq_init) : DeliverPacket(p)

\* the receive thread in TIME_WAIT: these packets are not counted as events
DeliverInTimeWait ==
    /\ sess.state = "TIME_WAIT"
    /\ fsm_pc = "idle"
    /\ \E p \in PacketsTimeWait(sess.local_seq_init) : Commit(tcp_fsm(Cur, p, "NONE", FALSE))
    /\ heard' = TRUE
    /\ UNCHANGED <<fsm_pc, events, stack_vars>>
    /\ AppVarsUnchanged

\* the time_wait timer is armed: the state initialization of TIME_WAIT has run
Armed(s) == s.state = "TIME_WAIT" /\ ~s.state_init

\* The timer thread.  Its iterations in TIME_WAIT are not counted as events,
\* so that the time_wait timer runs its full course; tw_elapsed counts the
\* iterations since the one before which the timer was armed.
TickTimeWait ==
    /\ sess.state = "TIME_WAIT" \/ Budget
    /\ events' = IF sess.state = "TIME_WAIT" THEN events ELSE events + 1
    /\ tw_elapsed <= TIME_WAIT_DELAY
    /\ fsm_pc = "idle"
    /\ Commit(timer_iteration(Cur))
    /\ tw_elapsed' = IF Armed(sess) /\ sess'.state = "TIME_WAIT" THEN tw_elapsed + 1 ELSE 0
    /\ UNCHANGED <<fsm_pc, heard, table_vars, lock_vars, link_vars, task_vars, ack_owed, race_vars>>
    /\ AppVarsUnchanged

NextTimeWait ==
    \/ TickTimeWait
    \/ DeliverTimeWait
    \/ DeliverInTimeWait
    \/ AppListen
    \/ AppClose
    \/ CloseSpinExit
    \/ CloseInject

\* the timer thread runs again and again
SpecTimeWait ==
    /\ Init
    /\ [][NextTimeWait]_vars
    /\ WF_vars(TickTimeWait)

\* in TIME_WAIT no segment and no syscall changes the state
C31_Deaf ==
    (sess.state = "TIME_WAIT" /\ fsm_pc = "idle") =>
        /\ \A p \in Packets(ISS) \cup PacketsTimeWait(ISS) :
              OnPacket(p).s.state = "TIME_WAIT"
        /\ \A syscall \in {"LISTEN", "CONNECT", "CLOSE"} :
              tcp_fsm(Cur, NoPacket, syscall, FALSE).s.state = "TIME_WAIT"

\* a session in TIME_WAIT has seen fewer than TIME_WAIT_DELAY iterations since
\* its timer was armed
C31_NotLate == sess.state = "TIME_WAIT" => tw_elapsed < TIME_WAIT_DELAY

\* TIME_WAIT is left for CLOSED, in the TIME_WAIT_DELAY-th timer iteration
\* after the timer was armed
C31_Leave ==
    (sess.state = "TIME_WAIT" /\ sess'.state # "TIME_WAIT") =>
        /\ sess'.state = "CLOSED"
        /\ Armed(sess)
        /\ tw_elapsed = TIME_WAIT_DELAY - 1
        /\ events' = events /\ tx_log' = tx_log

\* C31: TIME_WAIT timeout: a session that enters TIME_WAIT remains in
\* TIME_WAIT, whatever packets or syscalls arrive, until TIME_WAIT_DELAY
\* (15000) ticks have elapsed since its time_wait timer was armed, and then
\* always transitions to CLOSED; it never leaves TIME_WAIT earlier and never
\* stays forever.
C31_TimeWait ==
    /\ [](C31_Deaf /\ C31_NotLate)
    /\ [][C31_Leave]_vars
    /\ (sess.state = "TIME_WAIT" ~> sess.state = "CLOSED")

\* 14999 iterations after the timer was armed the session is in TIME_WAIT;
\* the next iteration takes it to CLOSED
C31_LastTick ==
    /\ sess.state = "TIME_WAIT"
    /\ fsm_pc = "idle"
    /\ tw_elapsed = TIME_WAIT_DELAY - 1
    /\ timer_iteration(Cur).s.state = "CLOSED"

(***************************************************************************)
(* Segments out of order, and RST                                          *)
(***************************************************************************)

\* the sequence variables of a session
SeqVars(s) ==
    <<s.local_seq_init, s.local_seq_sent, s.local_seq_ackd, s.local_seq_fin,
      s.remote_seq_init, s.remote_seq_rcvd, s.remote_seq_ackd, s.tx_buffer_seq_mod>>

\* the segment is not the next of the peer's stream, or acknowledges what was
\* never sent
NotSane(p) == p.seq # sess.remote_seq_rcvd \/ p.ack > sess.local_seq_sent

\* in the four states such a segment changes nothing and nothing is sent
C32_Dropped ==
    (sess.state \in {"ESTABLISHED", "FIN_WAIT_1", "FIN_WAIT_2", "CLOSE_WAIT"}
        /\ fsm_pc = "idle") =>
        \A p \in Packets(ISS) :
            NotSane(p) =>
                LET r == OnPacket(p)
                IN  /\ r.s.state = sess.state
                    /\ SeqVars(r.s) = SeqVars(sess)
                    /\ r.s.rx_buffer = sess.rx_buffer
                    /\ r.s.tx_buffer = sess.tx_buffer
                    /\ r.o = tx_log

\* no segment sent so far has the RST flag
C32_NoRst == \A i \in 1..Len(tx_log) : ~tx_log[i].flag_rst

\* C32: non-sane segments are silently dropped: in ESTABLISHED, FIN_WAIT_1,
\* FIN_WAIT_2 and CLOSE_WAIT a received segment whose seq differs from
\* remote_seq_rcvd or whose ack exceeds local_seq_sent leaves state, all
\* sequence variables, rx_buffer and tx_buffer unchanged and causes no
\* segment to be emitted; in no state does the session ever emit a segment
\* with the RST flag.
C32_SilentDrop == C32_Dropped /\ C32_NoRst

\* data has been received in ESTABLISHED, and a data segment that is not the
\* next of the stream leaves rx_buffer as it is
C32_OutOfOrder ==
    /\ sess.state = "ESTABLISHED"
    /\ fsm_pc = "idle"
    /\ sess.rx_buffer # << >>
    /\ \E p \in Packets(ISS) :
          /\ OnlyAck(p) /\ p.raw_data # << >>
          /\ p.seq # sess.remote_seq_rcvd /\ p.ack <= sess.local_seq_sent
          /\ OnPacket(p).s.rx_buffer = sess.rx_buffer
          /\ OnPacket(p).o = tx_log

(***************************************************************************)
(* What phrx_arp learns                                                    *)
(***************************************************************************)

\* every ARP packet a neighbour can send, over a few addresses
ArpPacketsAll ==
    { ArpPacket(dst, oper, PeerMac, spa, tha, tpa) :
        dst \in {StackMac, BroadcastMac}, oper \in {"REQUEST", "REPLY"},
        spa \in {PeerIp, StackIp}, tha \in {StackMac, ZeroMac},
        tpa \in {StackIp, PeerIp, ZeroIp} }
    \cup
    { ArpPacket(PeerMac, oper, PeerMac, PeerIp, PeerMac, PeerIp) :
        oper \in {"REQUEST", "REPLY"} }

\* (a) a request for the stack's address, (b) a reply directed to the stack's
\* MAC address, (c) a broadcast reply whose sender is its target
DirectRequest(p) == p.arp_oper = "REQUEST" /\ p.arp_tpa = StackIp
DirectReply(p) == p.arp_oper = "REPLY" /\ p.ether_dst = StackMac
GratuitousReply(p) ==
    p.arp_oper = "REPLY" /\ p.ether_dst = BroadcastMac /\ p.arp_spa = p.arp_tpa

\* a reply that tells of a conflict: it answers a probe of the stack
ConflictReply(p) ==
    /\ DirectReply(p)
    /\ p.arp_spa = StackIp /\ p.arp_tha = StackMac /\ p.arp_tpa = ZeroIp

\* the cache c with the mapping of p's sender new or refreshed
Learned(c, p) ==
    [ip \in DOMAIN c \cup {p.arp_spa} |->
        IF ip = p.arp_spa
        THEN [mac_address |-> p.arp_sha, age |-> 0, hit_count |-> 0]
        ELSE c[ip]]

\* the cache learns from p exactly when learns(p), and a request for the
\* stack's address is answered with one reply to its sender
LearnsExactly(learns(_)) ==
    \A p \in ArpPacketsAll \cup ArpPacketsRx :
        LET r == phrx_arp(ph_conflict, ph_tx, arp_cache, p, ph_clock)
        IN  /\ r.c = IF learns(p) THEN Learned(arp_cache, p) ELSE arp_cache
            /\ DirectRequest(p) =>
                  /\ Len(r.tx) = Len(ph_tx) + 1
                  /\ r.tx[Len(r.tx)].pkt.arp_oper = "REPLY"
                  /\ r.tx[Len(r.tx)].pkt.ether_dst = p.arp_sha
                  /\ r.tx[Len(r.tx)].pkt.arp_tpa = p.arp_spa

ClaimedLearning(p) ==
    \/ DirectRequest(p) /\ ARP_CACHE_UPDATE_FROM_DIRECT_REQUEST
    \/ DirectReply(p)
    \/ GratuitousReply(p) /\ ARP_CACHE_UPDATE_FROM_GRATUITOUS_REPLY

AmendedLearning(p) ==
    \/ DirectRequest(p) /\ ARP_CACHE_UPDATE_FROM_DIRECT_REQUEST
    \/ DirectReply(p) /\ ~ConflictReply(p)
    \/ GratuitousReply(p) /\ ARP_CACHE_UPDATE_FROM_GRATUITOUS_REPLY

\* C33: ARP learning rules: the cache gains or refreshes the mapping
\* sender_ip -> sender_mac exactly when (a) an ARP request with target IP =
\* stack IP is received (which also triggers one ARP reply to the sender) and
\* LEARN_FROM_DIRECT_REQUEST is on, (b) an ARP reply directed to the stack
\* MAC is received, or (c) a broadcast ARP reply with sender_ip = target_ip
\* is received and LEARN_FROM_GRATUITOUS_REPLY is on; every other ARP packet
\* (request for another IP, broadcast reply with sender_ip != target_ip, any
\* packet with the corresponding flag off) leaves the cache unchanged.
C33_Learning == LearnsExactly(ClaimedLearning)

\* C33 as amended: as C33, with (b) an ARP reply directed to the stack MAC
\* that is not the answer to a probe of the stack (sender_ip = stack IP,
\* target MAC = stack MAC, target IP = 0.0.0.0), which sets the conflict flag
\* and leaves the cache unchanged.
C33_LearningAmended == LearnsExactly(AmendedLearning)

\* the neighbour asked for the stack's address and answered a probe: its
\* mapping is in the cache, the reply to it is out, the conflict is noted and
\* the stack's own address is not in the cache
C33_Learned ==
    /\ PeerIp \in DOMAIN arp_cache
    /\ arp_cache[PeerIp].mac_address = PeerMac
    /\ StackIp \notin DOMAIN arp_cache
    /\ ph_conflict
    /\ \E i \in 1..Len(ph_tx) :
          ph_tx[i].pkt.arp_oper = "REPLY" /\ ph_tx[i].pkt.ether_dst = PeerMac

(***************************************************************************)
(* The stop condition of a task (StackTimerTask.tick)                      *)
(***************************************************************************)

\* task id is in the task list with a stop condition, which is true
Stopping(id) ==
    \E i \in 1..Len(tasks) :
        tasks[i].method = id /\ tasks[i].stop_condition /\ stop_now

\* the tick of a task whose stop condition is true: remaining_delay is 0
\* afterwards and the method is not called, whatever the countdown
C34_Tick ==
    \A i \in 1..Len(tasks) :
        tasks[i].stop_condition =>
            LET r == task_tick(tasks[i], TRUE)
            IN  /\ ~r.ran
                /\ r.task.remaining_delay = 0
                /\ reap_tasks(<<r.task>>) = << >>

\* an iteration of the timer thread with the stop condition true: the method
\* does not run and the task is gone afterwards
C34_Iteration ==
    \A id \in 1..Len(task_log) :
        (Stopping(id) /\ ticks' = ticks + 1) =>
            /\ task_log'[id].fires = task_log[id].fires
            /\ \A i \in 1..Len(tasks') : tasks'[i].method # id

\* a task that has left the task list does not come back and its method does
\* not run again
C34_Gone ==
    \A id \in 1..Len(task_log) :
        ~InTaskList(id) =>
            /\ task_log'[id].fires = task_log[id].fires
            /\ \A i \in 1..Len(tasks') : tasks'[i].method # id

\* C34: task stop condition: if a task's stop condition is true on a tick,
\* the callback is not invoked on that tick (even when the countdown reaches
\* zero on that same tick) nor on any later tick, remaining_delay is forced
\* to 0, and the task is removed from the task list at the end of that tick.
C34_StopCondition == []C34_Tick /\ [][C34_Iteration /\ C34_Gone]_vars

\* a task of delay 1 that repeats for ever ran in each iteration until its
\* stop condition became true: it is gone, iterations have passed since, and
\* the condition is false again
C34_Stopped ==
    /\ Len(task_log) = 1
    /\ task_log[1].stop_condition
    /\ task_log[1].repeat_count = -1
    /\ task_log[1].delay = 1
    /\ Len(task_log[1].fires) >= 2
    /\ ticks >= task_log[1].fires[Len(task_log[1].fires)] + 2
    /\ tasks = << >>
    /\ ~stop_now

---------------------------------------------------------------------------
(* StackTimer: __thread_timer statement by statement, beside a thread that *)
(* calls register_timer or register_method. StackTimer has no lock: the    *)
(* threads interleave wherever the interpreter switches between them.      *)

\* the timeouts and delays the other thread registers; its tasks repeat for
\* ever and have no stop condition, so that no task ends of itself
\* iterations of the timer thread beside the registering thread
MaxRaceTicks == 2

RaceTimeouts == TimeoutValues \ {0}
RaceDelays == TaskDelays

RaceOthersUnchanged ==
    UNCHANGED <<sess, tx_log, fsm_pc, app_pc, app_arg, app_ret, events, heard,
                table_vars, lock_vars, link_vars, ack_vars, stop_now>>

\* the dict iterators raise RuntimeError("dictionary changed size during
\* iteration") at the next step when a key was added since they were made
SizeChanged == Cardinality(DOMAIN timers) # tick_it.used

\* "time.sleep(0.001)" is over; "for name in self.timers" makes its iterator
TickWake ==
    /\ tick_pc = "sleep"
    /\ ticks < MaxRaceTicks
    /\ tick_pc' = "for_timers"
    /\ tick_it' = [NoIter EXCEPT !.todo = DOMAIN timers,
                                 !.used = Cardinality(DOMAIN timers)]
    /\ UNCHANGED <<timers, tasks, task_log, timer_log, ticks, reg_pc, reg_call>>
    /\ RaceOthersUnchanged

\* the iterator's next name and the load of "self.timers[name] -= 1"; after
\* the last name the comprehension of the cleanup makes its items() iterator.
\* The model's timers keep no order of insertion: the names come in any order.
TickTimersNext ==
    /\ tick_pc = "for_timers"
    /\ IF SizeChanged
       THEN /\ tick_pc' = "dead"
            /\ tick_it' = tick_it
       ELSE IF tick_it.todo = {}
       THEN /\ tick_pc' = "reap_timers"
            /\ tick_it' = [NoIter EXCEPT !.todo = DOMAIN timers,
                                         !.used = Cardinality(DOMAIN timers)]
       ELSE \E name \in tick_it.todo :
               /\ tick_pc' = "store_timer"
               /\ tick_it' = [tick_it EXCEPT !.todo = @ \ {name}, !.name = name,
                                             !.value = timers[name]]
    /\ UNCHANGED <<timers, tasks, task_log, timer_log, ticks, reg_pc, reg_call>>
    /\ RaceOthersUnchanged

\* the store of "self.timers[name] -= 1"
TickTimerStore ==
    /\ tick_pc = "store_timer"
    /\ timers' = [timers EXCEPT ![tick_it.name] = tick_it.value - 1]
    /\ tick_pc' = "for_timers"
    /\ UNCHANGED <<tick_it, tasks, task_log, timer_log, ticks, reg_pc, reg_call>>
    /\ RaceOthersUnchanged

\* one item of "{_: __ for _, __ in self.timers.items() if __}"
TickReapTimersNext ==
    /\ tick_pc = "reap_timers"
    /\ IF SizeChanged
       THEN /\ tick_pc' = "dead"
            /\ tick_it' = tick_it
       ELSE IF tick_it.todo = {}
       THEN /\ tick_pc' = "assign_timers"
            /\ tick_it' = tick_it
       ELSE \E name \in tick_it.todo :
               /\ tick_pc' = tick_pc
               /\ tick_it' = [tick_it EXCEPT
                                !.todo = @ \ {name},
                                !.new_timers = IF timers[name] # 0
                                               THEN register_timer(@, name, timers[name])
                                               ELSE @]
    /\ UNCHANGED <<timers, tasks, task_log, timer_log, ticks, reg_pc, reg_call>>
    /\ RaceOthersUnchanged

\* "self.timers = ...": the attribute is bound to the new dict; a thread that
\* has loaded the old one will store into the old one
TickTimersAssign ==
    /\ tick_pc = "assign_timers"
    /\ timers' = tick_it.new_timers
    /\ reg_call' = IF reg_pc = "timer" THEN [reg_call EXCEPT !.replaced = TRUE]
                   ELSE reg_call
    /\ tick_pc' = "for_tasks"
    /\ tick_it' = [NoIter EXCEPT !.idx = 1]
    /\ UNCHANGED <<tasks, task_log, timer_log, ticks, reg_pc>>
    /\ RaceOthersUnchanged

\* "for task in self.tasks: task.tick()": the list iterator goes by index and
\* meets a task appended meanwhile; past the end, the cleanup starts
TickTasksNext ==
    /\ tick_pc = "for_tasks"
    /\ IF tick_it.idx > Len(tasks)
       THEN /\ tick_pc' = "reap_tasks"
            /\ tick_it' = [NoIter EXCEPT !.idx = 1]
            /\ UNCHANGED <<tasks, task_log>>
       ELSE LET r == task_tick(tasks[tick_it.idx], stop_now)
                id == tasks[tick_it.idx].method
            IN  /\ tasks' = [tasks EXCEPT ![tick_it.idx] = r.task]
                /\ task_log' = IF r.ran
                               THEN [task_log EXCEPT ![id].fires = Append(@, ticks + 1)]
                               ELSE task_log
                /\ tick_pc' = tick_pc
                /\ tick_it' = [tick_it EXCEPT !.idx = @ + 1]
    /\ UNCHANGED <<timers, timer_log, ticks, reg_pc, reg_call>>
    /\ RaceOthersUnchanged

\* one element of "[_ for _ in self.tasks if _.remaining_delay]"
TickReapTasksNext ==
    /\ tick_pc = "reap_tasks"
    /\ IF tick_it.idx > Len(tasks)
       THEN /\ tick_pc' = "assign_tasks"
            /\ tick_it' = tick_it
       ELSE /\ tick_pc' = tick_pc
            /\ tick_it' = [tick_it EXCEPT
                             !.idx = @ + 1,
                             !.new_tasks = IF tasks[tick_it.idx].remaining_delay # 0
                                           THEN Append(@, tasks[tick_it.idx])
                                           ELSE @]
    /\ UNCHANGED <<timers, tasks, task_log, timer_log, ticks, reg_pc, reg_call>>
    /\ RaceOthersUnchanged

\* "self.tasks = ...": the iteration is over and the thread sleeps again
TickTasksAssign ==
    /\ tick_pc = "assign_tasks"
    /\ tasks' = tick_it.new_tasks
    /\ reg_call' = IF reg_pc = "method" THEN [reg_call EXCEPT !.replaced = TRUE]
                   ELSE reg_call
    /\ ticks' = ticks + 1
    /\ tick_pc' = "sleep"
    /\ tick_it' = NoIter
    /\ UNCHANGED <<timers, task_log, timer_log, reg_pc>>
    /\ RaceOthersUnchanged

\* register_timer(name, timeout) of another thread: "self.timers" is loaded
RegisterTimerLoad(name, timeout) ==
    /\ reg_pc = "out"
    /\ reg_pc' = "timer"
    /\ reg_call' = [NoCall EXCEPT !.name = name, !.timeout = timeout]
    /\ UNCHANGED <<timers, tasks, task_log, timer_log, ticks, tick_pc, tick_it>>
    /\ RaceOthersUnchanged

\* "[name] = timeout" is stored into the dict that was loaded
RegisterTimerStore ==
    /\ reg_pc = "timer"
    /\ timers' = IF reg_call.replaced THEN timers
                 ELSE register_timer(timers, reg_call.name, reg_call.timeout)
    /\ timer_log' = [n \in (DOMAIN timer_log) \cup {reg_call.name} |->
                        IF n = reg_call.name
                        THEN [timeout |-> reg_call.timeout, at |-> ticks]
                        ELSE timer_log[n]]
    /\ reg_pc' = "out"
    /\ reg_call' = NoCall
    /\ UNCHANGED <<tasks, task_log, ticks, tick_pc, tick_it>>
    /\ RaceOthersUnchanged

\* register_method(method, delay=delay) of another thread: "self.tasks" and
\* its append are loaded, then the StackTimerTask is made
RegisterMethodLoad(delay) ==
    /\ reg_pc = "out"
    /\ Len(task_log) < MaxTasks
    /\ reg_pc' = "method"
    /\ reg_call' = [NoCall EXCEPT !.delay = delay]
    /\ UNCHANGED <<timers, tasks, task_log, timer_log, ticks, tick_pc, tick_it>>
    /\ RaceOthersUnchanged

\* the task is appended to the list that was loaded
RegisterMethodAppend ==
    /\ reg_pc = "method"
    /\ tasks' = IF reg_call.replaced THEN tasks
                ELSE Append(tasks, StackTimerTask(Len(task_log) + 1, reg_call.delay,
                                                  FALSE, -1, FALSE))
    /\ task_log' = Append(task_log,
                          [delay |-> reg_call.delay, delay_exp |-> FALSE,
                           repeat_count |-> -1, stop_condition |-> FALSE,
                           at |-> ticks, fires |-> << >>])
    /\ reg_pc' = "out"
    /\ reg_call' = NoCall
    /\ UNCHANGED <<timers, timer_log, ticks, tick_pc, tick_it>>
    /\ RaceOthersUnchanged

NextRace ==
    \/ TickWake
    \/ TickTimersNext
    \/ TickTimerStore
    \/ TickReapTimersNext
    \/ TickTimersAssign
    \/ TickTasksNext
    \/ TickReapTasksNext
    \/ TickTasksAssign
    \/ \E name \in TimerNames : \E timeout \in RaceTimeouts : RegisterTimerLoad(name, timeout)
    \/ RegisterTimerStore
    \/ \E d \in RaceDelays : RegisterMethodLoad(d)
    \/ RegisterMethodAppend

SpecRace == Init /\ [][NextRace]_vars

\* the timer thread has not ended with an exception
C35_Undisturbed == tick_pc # "dead"

\* a timer whose latest registration is younger than its timeout is in the
\* timer map and not reported expired
C35_NotEarly ==
    \A name \in DOMAIN timer_log :
        timer_log[name].timeout > ticks - timer_log[name].at =>
            /\ name \in DOMAIN timers
            /\ ~timer_expired(timers, name)

\* every registered task (none ends of itself here) is in the task list
C35_TaskKept ==
    \A id \in 1..Len(task_log) : \E i \in 1..Len(tasks) : tasks[i].method = id

\* C35: timer registrations are serialized with the tick: a register_timer
\* or register_method call made by another thread at any point during a tick
\* iteration of the timer thread is never lost and never disrupts the tick
\* thread: after the iteration the registered timer or task is present in the
\* timer map / task list (unless it legitimately expired), so a freshly armed
\* timer is never reported expired early.
C35_Serialized ==
    /\ C35_Undisturbed
    /\ tick_pc = "sleep" => C35_NotEarly /\ C35_TaskKept

---------------------------------------------------------------------------
(* The ARP cache: whether the aging worker gets to every entry             *)

\* the steps of the thread that runs __maintain
ArpWorker ==
    \/ ArpScanStart
    \/ \E ip \in ArpIps : ArpScanEntry(ip)
    \/ ArpScanEnd

\* time passes, and the maintenance thread is scheduled while it lives
SpecArpFair == SpecArp /\ WF_vars(ArpClock) /\ WF_vars(ArpWorker)

\* the entry of ip is in the cache and older than ARP_ENTRY_MAX_AGE
Overdue(ip) == ip \in DOMAIN arp_cache /\ expired(arp_cache[ip])

\* the aging worker has not ended
C36_Scanning == maintain_pc # "dead"

\* an entry older than ARP_ENTRY_MAX_AGE is removed in the end, unless it is
\* added again
C36_Removed == \A ip \in ArpLearned : Overdue(ip) ~> ~Overdue(ip)

\* C36: ARP age-out liveness: every cache entry that is not re-added is
\* eventually removed by the aging worker once its age exceeds ENTRY_MAX_AGE,
\* in every configuration and history, including when no tx ring is bound to
\* the cache and the entry was looked up (hits > 0) during its refresh
\* window; the aging worker never stops scanning.
C36_AgeOut == []C36_Scanning /\ C36_Removed

---------------------------------------------------------------------------
(* The packet handler: answers to ARP requests and the claim of the address *)

\* this step hands phtx_arp an ARP reply that tells an asker stack_ip is at
\* stack_mac (the gratuitous reply of the constructor is a broadcast)
AnswersRequest ==
    /\ Len(ph_tx') = Len(ph_tx) + 1
    /\ LET pkt == ph_tx'[Len(ph_tx')].pkt
       IN  /\ pkt.arp_oper = "REPLY"
           /\ pkt.ether_dst # BroadcastMac
           /\ pkt.arp_sha = StackMac
           /\ pkt.arp_spa = StackIp

\* C37: no use of an unclaimed address: the handler emits an ARP reply
\* advertising stack_ip -> stack_mac in answer to a received ARP request only
\* while ip_address_claimed is true; during the probe phase and after a
\* detected conflict (IP operations disabled) a request for the stack IP
\* produces no reply.
C37_NoUnclaimedReply == [][AnswersRequest => ph_claimed]_vars

====
